---- MODULE Spec2Model ----
(***************************************************************************)
(* Model of the request validation / response normalisation layer of the  *)
(* blog API server: the validate middleware, the response envelope        *)
(* builders, calculatePagination, asyncHandler, the global errorHandler   *)
(* and the register flow of the authentication service.                   *)
(***************************************************************************)
EXTENDS Integers, Sequences, FiniteSets, TLC

(***************************************************************************)
(* Bounds of the model                                                     *)
(***************************************************************************)
MaxTotal == 5
MaxPage == 4
MaxBelow == 2
MaxLimit == 3
MaxClock == 20
TickStep == 20
MaxRequests == 3

(***************************************************************************)
(* Program constants                                                       *)
(***************************************************************************)
DefaultPage == 1
DefaultLimit == 10
TOKEN_EXPIRATION_MINUTES == 15

(***************************************************************************)
(* JavaScript values                                                       *)
(*   an optional value is a sequence of length 0 (undefined) or 1          *)
(*   a number is [k, n]: k = "num" (the integer n), "inf" (n is the sign)  *)
(*   or "nan"                                                              *)
(***************************************************************************)
Undefined == <<>>
Def(v) == <<v>>
IsDef(m) == Len(m) = 1

Num(n) == [k |-> "num", n |-> n]
Infinity(sign) == [k |-> "inf", n |-> sign]
NaN == [k |-> "nan", n |-> 0]

IsFiniteNum(x) == x.k = "num"

\* a / b followed by Math.ceil, for integers a and b
MathCeilOfQuotient(a, b) ==
  IF b = 0
    THEN IF a = 0 THEN NaN ELSE IF a > 0 THEN Infinity(1) ELSE Infinity(-1)
    ELSE IF b > 0
      THEN Num(-((-a) \div b))
      ELSE Num(-(a \div (-b)))

\* x || 1 : 0 and NaN are falsy
OrOne(x) == IF x.k = "nan" \/ (x.k = "num" /\ x.n = 0) THEN Num(1) ELSE x

\* a < b on numbers (false whenever NaN takes part)
JsLess(a, b) ==
  IF a.k = "nan" \/ b.k = "nan" THEN FALSE
  ELSE IF a.k = "inf" /\ a.n = 1 THEN FALSE
  ELSE IF b.k = "inf" /\ b.n = -1 THEN FALSE
  ELSE IF a.k = "inf" THEN TRUE
  ELSE IF b.k = "inf" THEN TRUE
  ELSE a.n < b.n

MathMin(a, b) ==
  IF a.k = "nan" \/ b.k = "nan" THEN NaN
  ELSE IF JsLess(b, a) THEN b ELSE a

MathMax(a, b) ==
  IF a.k = "nan" \/ b.k = "nan" THEN NaN
  ELSE IF JsLess(a, b) THEN b ELSE a

JsLessEq(a, b) ==
  IF a.k = "nan" \/ b.k = "nan" THEN FALSE ELSE ~JsLess(b, a)

(***************************************************************************)
(* utils/apiResponse.ts : calculatePagination                              *)
(***************************************************************************)
calculatePaginationUnclamped(totalItems, page, limit) ==
  LET p == IF IsDef(page) THEN page[1] ELSE DefaultPage
      l == IF IsDef(limit) THEN limit[1] ELSE DefaultLimit
      totalPages == MathCeilOfQuotient(totalItems, l)
      currentPage == MathMin(Num(p), OrOne(totalPages))
  IN [currentPage |-> currentPage,
      perPage |-> l,
      totalItems |-> totalItems,
      totalPages |-> totalPages,
      hasNextPage |-> JsLess(currentPage, totalPages),
      hasPreviousPage |-> JsLess(Num(1), currentPage)]

calculatePagination(totalItems, page, limit) ==
  LET p == IF IsDef(page) THEN page[1] ELSE DefaultPage
      l == IF IsDef(limit) THEN limit[1] ELSE DefaultLimit
      totalPages == MathCeilOfQuotient(totalItems, l)
      currentPage == MathMax(Num(1), MathMin(Num(p), OrOne(totalPages)))
  IN [currentPage |-> currentPage,
      perPage |-> l,
      totalItems |-> totalItems,
      totalPages |-> totalPages,
      hasNextPage |-> JsLess(currentPage, totalPages),
      hasPreviousPage |-> JsLess(Num(1), currentPage)]

(***************************************************************************)
(* JSON bodies: an object literal maps each key to an optional value;      *)
(* res.json drops the keys whose value is undefined                        *)
(***************************************************************************)
EmptyObject == [x \in {} |-> Undefined]

Json(o) == [x \in {y \in DOMAIN o : IsDef(o[y])} |-> o[x][1]]

\* res.req?.originalUrl || res.req?.url
PathOf(req) == IF req.originalUrl # "" THEN req.originalUrl ELSE req.url

(***************************************************************************)
(* utils/apiResponse.ts : the envelope builders                            *)
(***************************************************************************)
sendSuccess(req, now, statusCode, message, data, pagination) ==
  LET response == ("success" :> Def(TRUE))
                  @@ ("message" :> Def(message))
                  @@ ("data" :> data)
                  @@ ("timestamp" :> Def(now))
                  @@ ("path" :> Def(PathOf(req)))
                  @@ (IF IsDef(pagination)
                        THEN ("pagination" :> pagination)
                        ELSE EmptyObject)
  IN [status |-> IF IsDef(statusCode) THEN statusCode[1] ELSE 200,
      hasBody |-> TRUE,
      body |-> Json(response)]

sendErrorWithData(req, now, statusCode, message, errors) ==
  LET response == ("success" :> Def(FALSE))
                  @@ ("message" :> Def(message))
                  @@ ("data" :> Def("null"))
                  @@ ("timestamp" :> Def(now))
                  @@ ("path" :> Def(PathOf(req)))
                  @@ (IF IsDef(errors) /\ Len(errors[1]) > 0
                        THEN ("errors" :> errors)
                        ELSE EmptyObject)
  IN [status |-> IF IsDef(statusCode) THEN statusCode[1] ELSE 500,
      hasBody |-> TRUE,
      body |-> Json(response)]

sendError(req, now, statusCode, message, errors) ==
  LET response == ("success" :> Def(FALSE))
                  @@ ("message" :> Def(message))
                  @@ ("timestamp" :> Def(now))
                  @@ ("path" :> Def(PathOf(req)))
                  @@ (IF IsDef(errors) /\ Len(errors[1]) > 0
                        THEN ("errors" :> errors)
                        ELSE EmptyObject)
  IN [status |-> IF IsDef(statusCode) THEN statusCode[1] ELSE 500,
      hasBody |-> TRUE,
      body |-> Json(response)]

\* the metadata sent on as the caller gave it
sendPaginatedAsGiven(req, now, message, data, pagination) ==
  sendSuccess(req, now, Def(200), message, Def(data), Def(pagination))

sendPaginatedSuccess(req, now, message, data, pagination) ==
  LET enrichedPagination ==
        [pagination EXCEPT
           !.hasNextPage = JsLess(pagination.currentPage, pagination.totalPages),
           !.hasPreviousPage = JsLess(Num(1), pagination.currentPage)]
  IN sendSuccess(req, now, Def(200), message, Def(data), Def(enrichedPagination))

sendCreated(req, now, message, data) ==
  sendSuccess(req, now, Def(201), message, data, Undefined)

sendNoContent(req) == [status |-> 204, hasBody |-> FALSE, body |-> EmptyObject]

sendBadRequest(req, now, message, errors) ==
  sendError(req, now, Def(400), message, errors)

sendUnauthorized(req, now, message) ==
  sendError(req, now, Def(401),
            IF IsDef(message) THEN message[1] ELSE "Unauthorized", Undefined)

sendForbidden(req, now, message) ==
  sendError(req, now, Def(403),
            IF IsDef(message) THEN message[1] ELSE "Forbidden", Undefined)

sendNotFound(req, now, message) ==
  sendError(req, now, Def(404),
            IF IsDef(message) THEN message[1] ELSE "Resource not found", Undefined)

sendConflict(req, now, message, errors) ==
  sendError(req, now, Def(409), message, errors)

sendValidationError(req, now, message, errors) ==
  sendError(req, now, Def(422), message, Def(errors))

sendInternalError(req, now, message) ==
  sendError(req, now, Def(500),
            IF IsDef(message) THEN message[1] ELSE "Internal server error", Undefined)

(***************************************************************************)
(* utils/errors.ts : the error classes.  An error value carries the set   *)
(* of classes it is an instance of, its name, and the fields the global    *)
(* handler reads.                                                          *)
(***************************************************************************)
StackOf(message) == <<"stack", message>>

AppError(message, statusCode) ==
  [inst |-> {"Error", "AppError"},
   name |-> "Error",
   message |-> message,
   statusCode |-> IF IsDef(statusCode) THEN statusCode[1] ELSE 500,
   code |-> "",
   target |-> Undefined,
   errors |-> Undefined,
   issues |-> <<>>,
   stack |-> StackOf(message)]

SubclassOfAppError(cls, message, statusCode) ==
  [AppError(message, Def(statusCode)) EXCEPT !.inst = @ \cup {cls}]

BadRequestError(message) ==
  SubclassOfAppError("BadRequestError",
                     IF IsDef(message) THEN message[1] ELSE "Bad request", 400)

UnauthorizedError(message) ==
  SubclassOfAppError("UnauthorizedError",
                     IF IsDef(message) THEN message[1] ELSE "Unauthorized", 401)

ForbiddenError(message) ==
  SubclassOfAppError("ForbiddenError",
                     IF IsDef(message) THEN message[1] ELSE "Forbidden", 403)

NotFoundError(message) ==
  SubclassOfAppError("NotFoundError",
                     IF IsDef(message) THEN message[1] ELSE "Resource not found", 404)

ConflictError(message) ==
  SubclassOfAppError("ConflictError",
                     IF IsDef(message) THEN message[1] ELSE "Resource already exists", 409)

ValidationError(message, errors) ==
  [SubclassOfAppError("ValidationError",
                      IF IsDef(message) THEN message[1] ELSE "Validation failed", 422)
     EXCEPT !.errors = errors]

\* errors raised by the libraries, told apart by name (or class, for zod)
ForeignError(name, message) ==
  [inst |-> {"Error"},
   name |-> name,
   message |-> message,
   statusCode |-> 0,
   code |-> "",
   target |-> Undefined,
   errors |-> Undefined,
   issues |-> <<>>,
   stack |-> StackOf(message)]

PrismaKnownRequestError(code, target) ==
  [ForeignError("PrismaClientKnownRequestError", "Invalid prisma invocation")
     EXCEPT !.code = code, !.target = target]

ZodError(issues) ==
  [ForeignError("ZodError", "zod issues")
     EXCEPT !.inst = {"Error", "ZodError"}, !.issues = issues]

(***************************************************************************)
(* middlewares/errorHandler.ts : errorHandler                              *)
(***************************************************************************)
\* `${field.charAt(0).toUpperCase() + field.slice(1)} already exists`
AlreadyExistsMessage(field) ==
  CASE field = "email" -> "Email already exists"
    [] field = "username" -> "Username already exists"
    [] field = "slug" -> "Slug already exists"
    [] field = "token" -> "Token already exists"
    [] OTHER -> "Field already exists"

\* `File upload error: ${err.message}`
FileUploadMessage(message) ==
  CASE message = "File too large" -> "File upload error: File too large"
    [] message = "Unexpected field" -> "File upload error: Unexpected field"
    [] OTHER -> "File upload error: "

\* issue.path.join('.') , issue.message
FormatIssues(issues) ==
  [i \in 1..Len(issues) |-> [field |-> issues[i].path, message |-> issues[i].message]]

\* the status, message and errors the handler settles on
ClassifyError(err) ==
  IF "AppError" \in err.inst
    THEN [statusCode |-> err.statusCode,
          message |-> err.message,
          errors |-> IF "ValidationError" \in err.inst THEN err.errors ELSE Undefined]
  ELSE IF err.name = "PrismaClientKnownRequestError"
    THEN CASE err.code = "P2002" ->
                LET field == IF IsDef(err.target) /\ Len(err.target[1]) > 0
                                  /\ err.target[1][1] # ""
                               THEN err.target[1][1] ELSE "field"
                IN [statusCode |-> 400,
                    message |-> AlreadyExistsMessage(field),
                    errors |-> Def(<<[field |-> field,
                                      message |-> "This value is already taken"]>>)]
           [] err.code = "P2025" ->
                [statusCode |-> 404, message |-> "Resource not found",
                 errors |-> Undefined]
           [] err.code = "P2003" ->
                [statusCode |-> 400, message |-> "Related resource not found",
                 errors |-> Undefined]
           [] err.code = "P2014" ->
                [statusCode |-> 400, message |-> "Invalid relation reference",
                 errors |-> Undefined]
           [] OTHER ->
                [statusCode |-> 400, message |-> "Database operation failed",
                 errors |-> Undefined]
  ELSE IF err.name = "PrismaClientValidationError"
    THEN [statusCode |-> 400, message |-> "Invalid data provided", errors |-> Undefined]
  ELSE IF "ZodError" \in err.inst
    THEN [statusCode |-> 422, message |-> "Validation failed",
          errors |-> Def(FormatIssues(err.issues))]
  ELSE IF err.name = "JsonWebTokenError"
    THEN [statusCode |-> 401, message |-> "Invalid token", errors |-> Undefined]
  ELSE IF err.name = "TokenExpiredError"
    THEN [statusCode |-> 401, message |-> "Token expired", errors |-> Undefined]
  ELSE IF err.name = "MulterError"
    THEN [statusCode |-> 400, message |-> FileUploadMessage(err.message),
          errors |-> Undefined]
  ELSE [statusCode |-> 500, message |-> "Internal server error", errors |-> Undefined]

\* the handler with the development details sent whatever NODE_ENV is
errorHandlerAlwaysDetailed(err, nodeEnv) ==
  LET c == ClassifyError(err)
      body == ("success" :> Def(FALSE))
              @@ ("message" :> Def(c.message))
              @@ (IF IsDef(c.errors) THEN ("errors" :> c.errors) ELSE EmptyObject)
              @@ ("stack" :> Def(err.stack)) @@ ("error" :> Def(err.message))
  IN [status |-> c.statusCode, hasBody |-> TRUE, body |-> Json(body)]

errorHandler(err, nodeEnv) ==
  LET c == ClassifyError(err)
      body == ("success" :> Def(FALSE))
              @@ ("message" :> Def(c.message))
              @@ (IF IsDef(c.errors) THEN ("errors" :> c.errors) ELSE EmptyObject)
              @@ (IF nodeEnv = "development"
                    THEN ("stack" :> Def(err.stack)) @@ ("error" :> Def(err.message))
                    ELSE EmptyObject)
  IN [status |-> c.statusCode, hasBody |-> TRUE, body |-> Json(body)]

(***************************************************************************)
(* Request segments: an object maps keys to values; a value is a string    *)
(* [t |-> "string", s] or a number [t |-> "number", n] (NaN: isNaN)        *)
(***************************************************************************)
Str(s) == [t |-> "string", s |-> s]
Number(n) == [t |-> "number", n |-> n]
Obj(o) == [t |-> "object", o |-> o]
NoKeys == [x \in {} |-> Str("")]

\* the strings of the model, with what the string functions give on them
Strings == {"", "News", " News ", "news", "Bad Slug", "0", "1", "2", "101",
            "abc", "asc", "ASC", "x"}

StrLen(s) ==
  CASE s = "" -> 0
    [] s \in {"0", "1", "2", "x"} -> 1
    [] s \in {"101", "abc", "asc", "ASC"} -> 3
    [] s \in {"News", "news"} -> 4
    [] s = " News " -> 6
    [] OTHER -> 8

Trim(s) == IF s = " News " THEN "News" ELSE s

ToLowerCase(s) == IF s = "Ann@X.io" THEN "ann@x.io" ELSE s

\* the strings z.email() accepts
IsEmail(s) == s \in {"ann@x.io", "Ann@X.io"}

\* /^[a-z0-9]+(?:-[a-z0-9]+)*$/
MatchesSlugPattern(s) == s \in {"news", "0", "1", "2", "101", "abc", "asc", "x"}

\* Number(s): the number a string converts to, [nan |-> TRUE] when none
NumberOfString(s) ==
  CASE s \in {"", "0"} -> [nan |-> FALSE, n |-> 0]
    [] s = "1" -> [nan |-> FALSE, n |-> 1]
    [] s = "2" -> [nan |-> FALSE, n |-> 2]
    [] s = "101" -> [nan |-> FALSE, n |-> 101]
    [] OTHER -> [nan |-> TRUE, n |-> 0]

(***************************************************************************)
(* validators: the zod rules of one field, and the object schemas          *)
(***************************************************************************)
CoerceIntRule(min, max) ==
  [kind |-> "coerceNumber", optional |-> TRUE, min |-> min, max |-> max,
   options |-> {}, pattern |-> FALSE, trim |-> FALSE,
   typeMessage |-> "Invalid input: expected number, received NaN",
   minMessage |-> "Too small", maxMessage |-> "Too big",
   patternMessage |-> ""]

EnumRule(options) ==
  [kind |-> "enum", optional |-> TRUE, min |-> Undefined, max |-> Undefined,
   options |-> options, pattern |-> FALSE, trim |-> FALSE,
   typeMessage |-> "Invalid option", minMessage |-> "", maxMessage |-> "",
   patternMessage |-> ""]

StringRule(optional, typeMsg, min, minMsg, max, maxMsg, pattern, patMsg) ==
  [kind |-> "string", optional |-> optional, min |-> min, max |-> max,
   options |-> {}, pattern |-> pattern, trim |-> TRUE,
   typeMessage |-> typeMsg, minMessage |-> minMsg,
   maxMessage |-> maxMsg, patternMessage |-> patMsg]

\* z.email(message).toLowerCase().trim()
EmailRule(message) ==
  [kind |-> "email", optional |-> FALSE, min |-> Undefined, max |-> Undefined,
   options |-> {}, pattern |-> FALSE, trim |-> TRUE,
   typeMessage |-> message, minMessage |-> "", maxMessage |-> "",
   patternMessage |-> ""]

\* z.object(shape) as the rule of a field
ObjectRule(shape) ==
  [kind |-> "object", optional |-> FALSE, min |-> Undefined, max |-> Undefined,
   options |-> {}, pattern |-> FALSE, trim |-> FALSE,
   typeMessage |-> "Invalid input: expected object, received undefined",
   minMessage |-> "", maxMessage |-> "", patternMessage |-> "",
   shape |-> shape]

getTagsQueryValidator ==
  [fields |->
     ("page" :> CoerceIntRule(Def(1), Undefined))
     @@ ("limit" :> CoerceIntRule(Def(1), Def(100)))
     @@ ("search" :> StringRule(TRUE, "Invalid input: expected string",
                                Undefined, "", Undefined, "", FALSE, ""))
     @@ ("sortBy" :> EnumRule({"name", "createdAt"}))
     @@ ("sortOrder" :> EnumRule({"asc", "desc"}))]

\* validators/category.validator.ts
getCategoriesQueryValidator ==
  [fields |->
     ("page" :> CoerceIntRule(Def(1), Undefined))
     @@ ("limit" :> CoerceIntRule(Def(1), Def(100)))
     @@ ("search" :> StringRule(TRUE, "Invalid input: expected string",
                                Undefined, "", Undefined, "", FALSE, ""))
     @@ ("parentId" :> [StringRule(TRUE, "Invalid input: expected string",
                                   Undefined, "", Undefined, "", FALSE, "")
                          EXCEPT !.trim = FALSE])
     @@ ("sortBy" :> EnumRule({"name", "orderPosition", "createdAt"}))
     @@ ("sortOrder" :> EnumRule({"asc", "desc"}))]

createTagValidator ==
  [fields |->
     ("name" :> StringRule(FALSE, "Name must be a string",
                           Def(1), "Name must not be empty",
                           Def(50), "Name must be at most 50 characters long",
                           FALSE, ""))
     @@ ("slug" :> StringRule(FALSE, "Slug must be a string",
                           Def(1), "Slug must not be empty",
                           Def(50), "Slug must be at most 50 characters long",
                           TRUE,
                           "Slug can only contain lowercase letters, numbers, and hyphens"))
     @@ ("description" :> StringRule(TRUE, "Description must be a string",
                           Undefined, "",
                           Def(500), "Description must be at most 500 characters long",
                           FALSE, ""))]

\* validators/auth.validator.ts
checkEmailSchema ==
  [fields |-> ("body" :> ObjectRule(
     [fields |-> ("email" :> EmailRule("Invalid email format"))]))]

loginSchema ==
  [fields |-> ("body" :> ObjectRule(
     [fields |-> ("email" :> EmailRule("Invalid email format"))
                 @@ ("password" :> StringRule(FALSE, "Password is required",
                                              Undefined, "", Undefined, "",
                                              FALSE, ""))]))]

(***************************************************************************)
(* zod's parse of one field and of an object (unknown keys are stripped)   *)
(***************************************************************************)
RECURSIVE parseAsync(_, _)

\* issue.path.join('.') of the issues of a nested object
PrefixPath(field, issues) ==
  [i \in 1..Len(issues) |->
     [issues[i] EXCEPT !.path = field \o "." \o issues[i].path]]

Issue(path, message) == [path |-> path, message |-> message]

\* the issues of the checks that fail, in the order of the chain
ChecksOf(field, rule, failMin, failMax, failPattern) ==
  (IF failMin THEN <<Issue(field, rule.minMessage)>> ELSE <<>>)
  \o (IF failMax THEN <<Issue(field, rule.maxMessage)>> ELSE <<>>)
  \o (IF failPattern THEN <<Issue(field, rule.patternMessage)>> ELSE <<>>)

ParseField(field, rule, input) ==
  IF ~IsDef(input)
    THEN IF rule.optional
           THEN [value |-> Undefined, issues |-> <<>>]
           ELSE [value |-> Undefined, issues |-> <<Issue(field, rule.typeMessage)>>]
  ELSE LET raw == input[1] IN
    CASE rule.kind = "coerceNumber" ->
           LET c == IF raw.t = "number" THEN [nan |-> FALSE, n |-> raw.n]
                    ELSE NumberOfString(raw.s)
           IN IF c.nan
                THEN [value |-> Undefined,
                      issues |-> <<Issue(field, rule.typeMessage)>>]
                ELSE [value |-> Def(Number(c.n)),
                      issues |-> ChecksOf(field, rule,
                                   IsDef(rule.min) /\ c.n < rule.min[1],
                                   IsDef(rule.max) /\ c.n > rule.max[1],
                                   FALSE)]
      [] rule.kind = "enum" ->
           IF raw.t = "string" /\ raw.s \in rule.options
             THEN [value |-> Def(raw), issues |-> <<>>]
             ELSE [value |-> Undefined,
                   issues |-> <<Issue(field, rule.typeMessage)>>]
      [] rule.kind = "email" ->
           IF raw.t = "string" /\ IsEmail(raw.s)
             THEN [value |-> Def(Str(Trim(ToLowerCase(raw.s)))), issues |-> <<>>]
             ELSE [value |-> Undefined,
                   issues |-> <<Issue(field, rule.typeMessage)>>]
      [] rule.kind = "object" ->
           IF raw.t # "object"
             THEN [value |-> Undefined,
                   issues |-> <<Issue(field, rule.typeMessage)>>]
             ELSE LET r == parseAsync(rule.shape, raw.o)
                  IN [value |-> Def(Obj(r.data)),
                      issues |-> PrefixPath(field, r.issues)]
      [] OTHER ->
           IF raw.t # "string"
             THEN [value |-> Undefined,
                   issues |-> <<Issue(field, rule.typeMessage)>>]
             ELSE [value |-> Def(Str(IF rule.trim THEN Trim(raw.s) ELSE raw.s)),
                   issues |-> ChecksOf(field, rule,
                                IsDef(rule.min) /\ StrLen(raw.s) < rule.min[1],
                                IsDef(rule.max) /\ StrLen(raw.s) > rule.max[1],
                                rule.pattern /\ ~MatchesSlugPattern(raw.s))]

\* the issues of the fields, concatenated in the order of FieldOrder
RECURSIVE IssuesOf(_, _, _)
IssuesOf(schema, data, order) ==
  IF order = <<>> THEN <<>>
  ELSE LET f == Head(order)
           input == IF f \in DOMAIN data THEN Def(data[f]) ELSE Undefined
       IN (IF f \in DOMAIN schema.fields
             THEN ParseField(f, schema.fields[f], input).issues
             ELSE <<>>)
          \o IssuesOf(schema, data, Tail(order))

FieldOrder == <<"page", "limit", "search", "parentId", "sortBy", "sortOrder",
                "name", "slug", "description", "body", "email", "password">>

\* schema.parseAsync(data): the parsed value, or the issues of a ZodError
parseAsync(schema, data) ==
  LET issues == IssuesOf(schema, data, FieldOrder)
      parsed(f) == ParseField(f, schema.fields[f],
                              IF f \in DOMAIN data THEN Def(data[f]) ELSE Undefined)
      present == {f \in DOMAIN schema.fields : IsDef(parsed(f).value)}
  IN [success |-> issues = <<>>,
      data |-> [f \in present |-> parsed(f).value[1]],
      issues |-> issues]

(***************************************************************************)
(* middlewares/validate.ts : validate                                      *)
(***************************************************************************)
\* for (key in target) delete target[key]
DeleteOwnProperties(target) == NoKeys

ObjectAssign(target, source) == source @@ target

AssignWithoutClearing(target, parsedData) == ObjectAssign(target, parsedData)

\* the contents of req[source] once validation has succeeded
ReplaceInPlace(target, parsedData) ==
  ObjectAssign(DeleteOwnProperties(target), parsedData)

\* only the first issue is reported
FormatFirstZodIssue(issues) ==
  IF issues = <<>> THEN <<>>
  ELSE <<[field |-> issues[1].path, message |-> issues[1].message]>>

\* error.issues.map(err => ({field: err.path.join('.'), message: err.message}))
FormatZodIssues(issues) ==
  [i \in 1..Len(issues) |-> [field |-> issues[i].path, message |-> issues[i].message]]

\* what the middleware does with one request: the segment it leaves and the
\* argument it passes to next (Undefined for a plain next())
validateAlwaysForwards(schema, target) ==
  [segment |-> target, nextArg |-> Undefined]

validate(schema, target) ==
  LET r == parseAsync(schema, target)
  IN IF r.success
       THEN [segment |-> ReplaceInPlace(target, r.data), nextArg |-> Undefined]
       ELSE [segment |-> target,
             nextArg |-> Def(ValidationError(Def("Validation failed"),
                                             Def(FormatZodIssues(r.issues))))]

(***************************************************************************)
(* State                                                                   *)
(***************************************************************************)
VARIABLES
  nodeEnv,      \* process.env.NODE_ENV
  clock,        \* the wall clock, in minutes
  pgArgs,       \* the arguments of a calculatePagination call
  pgOut,        \* what the call returned (a sequence of at most one result)
  envReq,       \* the request an envelope builder answers
  envOut,       \* the responses the envelope builders sent for it
  vReq,         \* the request passing through the validate middleware
  vRaw,         \* the segment as the client sent it
  vPc,          \* where the request is in its middleware chain
  nextCalls,    \* the arguments validate passed to next, in order
  vErr,         \* the error on its way to the error-handling middleware
  handlerSaw,   \* the segment the route handler observed, per invocation
  vResp,        \* the responses sent for the request
  users,        \* table User
  tokens,       \* table VerificationToken
  rq,           \* the requests of the authentication routes in flight
  served,       \* how many requests the server has accepted so far
  resp,         \* the responses sent for each of them
  accounts,     \* table User as the protected routes see it, by user id
  issued,       \* the tokens generateAuthResponse has signed so far
  entities,     \* the tags, categories and activity logs in the database
  aReq,         \* the request passing through a protected route
  aErr,         \* the error passed to next on its way
  aRan,         \* the controllers invoked for it, in order
  aResp,        \* the responses sent for it
  aServed,      \* how many such requests the server has accepted so far
  cReq,         \* the requests handled concurrently, each with its progress
  cSeg,         \* the object req[source] of each of them
  categories,   \* table Category, by id
  jobs,         \* the service calls of the admin routes in flight
  admitted      \* how many such calls the server has accepted so far

envVars == <<nodeEnv, clock>>
pgVars == <<pgArgs, pgOut>>
builderVars == <<envReq, envOut>>
validateVars == <<vReq, vRaw, vPc, nextCalls, vErr, handlerSaw, vResp>>
authVars == <<users, tokens, rq, served, resp>>
accessVars == <<accounts, issued, entities, aReq, aErr, aRan, aResp, aServed>>
concVars == <<cReq, cSeg>>
adminVars == <<categories, jobs, admitted>>
extVars == <<accessVars, concVars, adminVars>>
vars == <<nodeEnv, clock, pgArgs, pgOut, envReq, envOut, vReq, vRaw, vPc,
          nextCalls, vErr, handlerSaw, vResp, users, tokens, rq, served, resp,
          accounts, issued, entities, aReq, aErr, aRan, aResp, aServed,
          cReq, cSeg, categories, jobs, admitted>>

NodeEnvs == {"development", "production"}
Requests == {"r1", "r2"}
Emails == {"ann@x.io", "bob@x.io"}
Usernames == {"ann", "bob"}
Codes == {"0001", "0002"}

Maybe(S) == {Undefined} \cup {Def(x) : x \in S}

IdleRequest == [pc |-> "idle", route |-> "", email |-> "", username |-> "",
                password |-> "", code |-> "", expires |-> 0,
                thrown |-> Undefined, handled |-> Undefined]

\* the parts of the state a specification does not exercise stay as they are
PgIdle ==
  /\ pgArgs = [totalItems |-> 0, page |-> Undefined, limit |-> Undefined]
  /\ pgOut = <<>>

BuilderIdle ==
  /\ envReq = [originalUrl |-> "", url |-> ""]
  /\ envOut = <<>>

ValidateIdle ==
  /\ vReq = [route |-> "", source |-> "", originalUrl |-> "", url |-> "",
             body |-> NoKeys, query |-> NoKeys, params |-> NoKeys]
  /\ vRaw = NoKeys
  /\ vPc = "idle"
  /\ nextCalls = <<>>
  /\ vErr = Undefined
  /\ handlerSaw = <<>>
  /\ vResp = <<>>

AuthIdle ==
  /\ users = {}
  /\ tokens = {}
  /\ rq = [r \in Requests |-> IdleRequest]
  /\ served = 0
  /\ resp = [r \in Requests |-> <<>>]

UserIds == {"u1", "u2"}
UserRole == {"ADMIN", "AUTHOR", "USER"}

IdleAccessRequest ==
  [pc |-> "idle", route |-> "", originalUrl |-> "", url |-> "",
   authorization |-> Undefined, user |-> Undefined, target |-> "",
   password |-> FALSE, refreshToken |-> Undefined]

AccessIdle ==
  /\ accounts = [u \in UserIds |-> [exists |-> FALSE, role |-> "USER",
                                    isActive |-> TRUE]]
  /\ issued = {}
  /\ entities = {}
  /\ aReq = IdleAccessRequest
  /\ aErr = Undefined
  /\ aRan = <<>>
  /\ aResp = <<>>
  /\ aServed = 0

IdleConcurrentRequest ==
  [pc |-> "idle", route |-> "", originalUrl |-> "", url |-> "", raw |-> NoKeys,
   outcome |-> Undefined, seen |-> Undefined, response |-> <<>>]

ConcIdle ==
  /\ cReq = [r \in Requests |-> IdleConcurrentRequest]
  /\ cSeg = [r \in Requests |-> NoKeys]

CategoryIds == {"c1", "c2", "c3"}

NoCategory == [exists |-> FALSE, slug |-> "", parentId |-> Undefined, posts |-> 0]

IdleJob == [pc |-> "idle", op |-> "", id |-> "", slug |-> "",
            parentId |-> Undefined, role |-> Undefined, thrown |-> Undefined,
            response |-> <<>>]

AdminIdle ==
  /\ categories = [c \in CategoryIds |-> NoCategory]
  /\ jobs = [r \in Requests |-> IdleJob]
  /\ admitted = 0

ExtIdle == AccessIdle /\ ConcIdle /\ AdminIdle

(***************************************************************************)
(* Specification of the pagination calculator: any call of it              *)
(***************************************************************************)
PageArgs == Maybe((0 - MaxBelow)..MaxPage)
LimitArgs == Maybe((0 - MaxBelow)..MaxLimit)

InitPagination ==
  /\ nodeEnv \in NodeEnvs
  /\ clock = 0
  /\ pgArgs \in [totalItems : 0..MaxTotal, page : PageArgs, limit : LimitArgs]
  /\ pgOut = <<>>
  /\ BuilderIdle /\ ValidateIdle /\ AuthIdle /\ ExtIdle

CalculatePagination ==
  /\ pgOut = <<>>
  /\ pgOut' = <<calculatePagination(pgArgs.totalItems, pgArgs.page, pgArgs.limit)>>
  /\ UNCHANGED <<pgArgs, envVars, builderVars, validateVars, authVars, extVars>>

NextPagination == CalculatePagination

SpecPagination == InitPagination /\ [][NextPagination]_vars

\* the page size the caller passed is not a positive number
InvalidPageSize == IsDef(pgArgs.limit) /\ pgArgs.limit[1] <= 0

NegativePageSize == IsDef(pgArgs.limit) /\ pgArgs.limit[1] < 0

\* C5: whatever the total item count and the requested page (0, negative and
\* beyond the last page included), the currentPage calculatePagination
\* returns lies within [1, max(totalPages, 1)], whenever totalPages is a
\* number at all (every call but the one with no items and a page size of 0).
C5_CurrentPageWithinRange ==
  \A i \in 1..Len(pgOut) :
    pgOut[i].totalPages.k # "nan" =>
      /\ JsLessEq(Num(1), pgOut[i].currentPage)
      /\ JsLessEq(pgOut[i].currentPage, MathMax(pgOut[i].totalPages, Num(1)))

\* a page beyond the last one of a 3-page result set came back as page 3
C5_Witness ==
  /\ pgOut # <<>>
  /\ IsDef(pgArgs.page) /\ pgArgs.page[1] > 3
  /\ pgOut[1].totalPages = Num(3)
  /\ pgOut[1].currentPage = Num(3)

\* C6: with an invalid page size (zero or negative) calculatePagination
\* substitutes a default, so that perPage is positive and totalPages is a
\* finite non-negative integer.
C6_InvalidPageSizeSubstituted ==
  \A i \in 1..Len(pgOut) :
    InvalidPageSize =>
      /\ pgOut[i].perPage > 0
      /\ IsFiniteNum(pgOut[i].totalPages)
      /\ pgOut[i].totalPages.n >= 0

\* C7: with a negative page size calculatePagination returns a PaginationMeta
\* clamped to valid values: perPage >= 1, totalPages >= 0, currentPage >= 1.
C7_NegativePageSizeClamped ==
  \A i \in 1..Len(pgOut) :
    NegativePageSize =>
      /\ pgOut[i].perPage >= 1
      /\ JsLessEq(Num(0), pgOut[i].totalPages)
      /\ JsLessEq(Num(1), pgOut[i].currentPage)

(***************************************************************************)
(* Specification of the envelope builders: any one call of any of them     *)
(***************************************************************************)
Messages == {"OK", "Failed"}
Payloads == Maybe({"null", "payload"})
ApiErrors == Maybe({<<>>, <<[field |-> "email", message |-> "Invalid email format"]>>})
StatusArgs == Maybe({200, 201, 400, 500})

\* pagination metadata as a caller may hand it over: the counts, with or
\* without helper flags that agree with them
PaginationMetas ==
  {[currentPage |-> Num(c), perPage |-> 10, totalItems |-> 10 * t,
    totalPages |-> Num(t), hasNextPage |-> n, hasPreviousPage |-> FALSE] :
     c \in 1..2, t \in 0..2, n \in BOOLEAN}

ExpressRequests == {[originalUrl |-> "/api/tags", url |-> "/"],
                    [originalUrl |-> "/api/auth/register", url |-> "/register"]}

InitBuilders ==
  /\ nodeEnv \in NodeEnvs
  /\ clock \in {0, TickStep}
  /\ envReq \in ExpressRequests
  /\ envOut = <<>>
  /\ PgIdle /\ ValidateIdle /\ AuthIdle /\ ExtIdle

Emit(response) ==
  /\ envOut = <<>>
  /\ envOut' = Append(envOut, response)
  /\ UNCHANGED <<envReq, envVars, pgVars, validateVars, authVars, extVars>>

SendSuccess ==
  \E statusCode \in StatusArgs, message \in Messages, data \in Payloads,
     pagination \in Maybe(PaginationMetas) :
    Emit(sendSuccess(envReq, clock, statusCode, message, data, pagination))

SendError ==
  \E statusCode \in StatusArgs, message \in Messages, errors \in ApiErrors :
    Emit(sendError(envReq, clock, statusCode, message, errors))

SendPaginatedSuccess ==
  \E message \in Messages, pagination \in PaginationMetas :
    Emit(sendPaginatedSuccess(envReq, clock, message, "payload", pagination))

SendCreated ==
  \E message \in Messages, data \in Payloads :
    Emit(sendCreated(envReq, clock, message, data))

SendNoContent == Emit(sendNoContent(envReq))

SendBadRequest ==
  \E message \in Messages, errors \in ApiErrors :
    Emit(sendBadRequest(envReq, clock, message, errors))

SendUnauthorized ==
  \E message \in Maybe(Messages) : Emit(sendUnauthorized(envReq, clock, message))

SendForbidden ==
  \E message \in Maybe(Messages) : Emit(sendForbidden(envReq, clock, message))

SendNotFound ==
  \E message \in Maybe(Messages) : Emit(sendNotFound(envReq, clock, message))

SendConflict ==
  \E message \in Messages, errors \in ApiErrors :
    Emit(sendConflict(envReq, clock, message, errors))

SendValidationError ==
  \E message \in Messages, errors \in ApiErrors \ {Undefined} :
    Emit(sendValidationError(envReq, clock, message, errors[1]))

SendInternalError ==
  \E message \in Maybe(Messages) : Emit(sendInternalError(envReq, clock, message))

NextBuilders ==
  \/ SendSuccess
  \/ SendError
  \/ SendPaginatedSuccess
  \/ SendCreated
  \/ SendNoContent
  \/ SendBadRequest
  \/ SendUnauthorized
  \/ SendForbidden
  \/ SendNotFound
  \/ SendConflict
  \/ SendValidationError
  \/ SendInternalError

SpecBuilders == InitBuilders /\ [][NextBuilders]_vars

Has(response, key) == response.hasBody /\ key \in DOMAIN response.body

\* C3: an envelope sent with success = false has no data field and an
\* envelope sent with success = true has no errors field, whichever builder
\* sent it and whatever its arguments.
C3_DataAndErrorsExclusive ==
  \A i \in 1..Len(envOut) :
    Has(envOut[i], "success") =>
      /\ envOut[i].body["success"] = FALSE => ~Has(envOut[i], "data")
      /\ envOut[i].body["success"] = TRUE => ~Has(envOut[i], "errors")

\* an error envelope that carries its list of field errors went out
C3_Witness ==
  /\ envOut # <<>>
  /\ Has(envOut[1], "success")
  /\ envOut[1].body["success"] = FALSE
  /\ Has(envOut[1], "errors")
  /\ envOut[1].status = 422

(***************************************************************************)
(* controllers/tag.controller.ts : what the tag controllers answer         *)
(***************************************************************************)
createTagResponse ==
  [status |-> 201, hasBody |-> TRUE,
   body |-> Json(("success" :> Def(TRUE))
                 @@ ("message" :> Def("Tag created successfully"))
                 @@ ("data" :> Def("tag")))]

getAllTagsResponse ==
  [status |-> 200, hasBody |-> TRUE,
   body |-> Json(("success" :> Def(TRUE))
                 @@ ("message" :> Def("Tags retrieved successfully"))
                 @@ ("data" :> Def("result"))
                 @@ ("pagination" :> Def("result.pagination")))]

(***************************************************************************)
(* Specification of a paginated list response: the metadata is calculated  *)
(* by calculatePagination or supplied by the caller, and sent by           *)
(* sendPaginatedSuccess                                                    *)
(***************************************************************************)
InitPaginated ==
  /\ nodeEnv \in NodeEnvs
  /\ clock = 0
  /\ pgArgs \in [totalItems : 0..MaxTotal, page : PageArgs, limit : LimitArgs]
  /\ pgOut = <<>>
  /\ envReq = [originalUrl |-> "/api/users", url |-> "/"]
  /\ envOut = <<>>
  /\ ValidateIdle /\ AuthIdle /\ ExtIdle

\* the metadata calculatePagination returned is sent
SendCalculatedPage ==
  /\ pgOut # <<>>
  /\ \E message \in Messages :
       Emit(sendPaginatedSuccess(envReq, clock, message, "payload", pgOut[1]))

NextPaginated ==
  \/ CalculatePagination
  \/ SendCalculatedPage
  \/ SendPaginatedSuccess

SpecPaginated == InitPaginated /\ [][NextPaginated]_vars

FlagsAgree(pagination) ==
  /\ pagination.hasNextPage = JsLess(pagination.currentPage, pagination.totalPages)
  /\ pagination.hasPreviousPage = JsLess(Num(1), pagination.currentPage)

\* C15: in every pagination object that calculatePagination returns or
\* sendPaginatedSuccess emits, hasNextPage is (currentPage < totalPages) and
\* hasPreviousPage is (currentPage > 1), for the currentPage and totalPages
\* of that same object.
C15_PageFlagsAgreeWithPageNumbers ==
  /\ \A i \in 1..Len(pgOut) : FlagsAgree(pgOut[i])
  /\ \A i \in 1..Len(envOut) :
       Has(envOut[i], "pagination") => FlagsAgree(envOut[i].body["pagination"])

\* page 2 of 3 was calculated and sent, with both flags set
C15_Witness ==
  /\ pgOut # <<>>
  /\ envOut # <<>>
  /\ pgOut[1].currentPage = Num(2)
  /\ pgOut[1].totalPages = Num(3)
  /\ envOut[1].body["pagination"] = pgOut[1]
  /\ envOut[1].body["pagination"].hasNextPage
  /\ envOut[1].body["pagination"].hasPreviousPage

(***************************************************************************)
(* Specification of a request through validate: routes/tag.routes.ts       *)
(*   GET  /api/tags  validate(getTagsQueryValidator, 'query'), getAllTags  *)
(*   POST /api/tags  validate(createTagValidator), createTag               *)
(***************************************************************************)
SchemaOf(route) ==
  CASE route = "GET /api/tags" -> getTagsQueryValidator
    [] route = "POST /api/auth/check-email" -> checkEmailSchema
    [] route = "POST /api/auth/login" -> loginSchema
    [] route = "GET /api/categories" -> getCategoriesQueryValidator
    [] OTHER -> createTagValidator

SourceOf(route) == IF route = "GET /api/tags" THEN "query" ELSE "body"

\* the segments clients send
RawQueries ==
  {Json(("page" :> p) @@ ("sortOrder" :> o) @@ ("extra" :> x)) :
     p \in Maybe({Str("2"), Str("0"), Str("abc")}),
     o \in Maybe({Str("asc"), Str("ASC")}),
     x \in Maybe({Str("x")})}

RawBodies ==
  {Json(("name" :> n) @@ ("slug" :> g) @@ ("extra" :> x)) :
     n \in Maybe({Str("News"), Str(" News "), Str(""), Number(5)}),
     g \in Maybe({Str("news"), Str("Bad Slug"), Str("")}),
     x \in Maybe({Str("x")})}

InitValidate ==
  /\ nodeEnv \in NodeEnvs
  /\ clock = 0
  /\ \/ \E q \in RawQueries :
          /\ vReq = [route |-> "GET /api/tags", source |-> "query",
                     originalUrl |-> "/api/tags", url |-> "/",
                     body |-> NoKeys, query |-> q, params |-> NoKeys]
          /\ vRaw = q
     \/ \E b \in RawBodies :
          /\ vReq = [route |-> "POST /api/tags", source |-> "body",
                     originalUrl |-> "/api/tags", url |-> "/",
                     body |-> b, query |-> NoKeys, params |-> NoKeys]
          /\ vRaw = b
  /\ vPc = "received"
  /\ nextCalls = <<>>
  /\ vErr = Undefined
  /\ handlerSaw = <<>>
  /\ vResp = <<>>
  /\ PgIdle /\ BuilderIdle /\ AuthIdle /\ ExtIdle

\* the validate middleware of the route runs
Validate ==
  /\ vPc = "received"
  /\ LET r == validate(SchemaOf(vReq.route), vReq[vReq.source])
     IN /\ vReq' = [vReq EXCEPT ![vReq.source] = r.segment]
        /\ nextCalls' = Append(nextCalls, r.nextArg)
        /\ vErr' = r.nextArg
        /\ vPc' = IF IsDef(r.nextArg) THEN "error" ELSE "handler"
  /\ UNCHANGED <<vRaw, handlerSaw, vResp, envVars, pgVars, builderVars, authVars, extVars>>

\* next(): the tag controller runs, the service succeeds and it answers
TagControllerAnswers ==
  /\ vPc = "handler"
  /\ handlerSaw' = Append(handlerSaw, vReq[vReq.source])
  /\ vResp' = Append(vResp, IF vReq.route = "GET /api/tags"
                              THEN getAllTagsResponse ELSE createTagResponse)
  /\ vPc' = "done"
  /\ UNCHANGED <<vReq, vRaw, nextCalls, vErr, envVars, pgVars, builderVars, authVars, extVars>>

\* next(): the tag controller runs, the service throws and the controller
\* passes the error on with next(error)
TagControllerFails ==
  /\ vPc = "handler"
  /\ handlerSaw' = Append(handlerSaw, vReq[vReq.source])
  /\ \E e \in {ConflictError(Def("Tag with this slug already exists")),
               PrismaKnownRequestError("P2002", Def(<<"slug">>)),
               ForeignError("Error", "connect ECONNREFUSED db:5432")} :
       vErr' = Def(e)
  /\ vPc' = "error"
  /\ UNCHANGED <<vReq, vRaw, nextCalls, vResp, envVars, pgVars, builderVars, authVars, extVars>>

\* next(err): the global error handler answers
ErrorMiddleware ==
  /\ vPc = "error"
  /\ vResp' = Append(vResp, errorHandler(vErr[1], nodeEnv))
  /\ vPc' = "done"
  /\ UNCHANGED <<vReq, vRaw, nextCalls, vErr, handlerSaw, envVars, pgVars,
                 builderVars, authVars, extVars>>

NextValidate ==
  \/ Validate
  \/ TagControllerAnswers
  \/ TagControllerFails
  \/ ErrorMiddleware

SpecValidate == InitValidate /\ [][NextValidate]_vars

\* the segment the client sent violates the schema of its route
RawViolatesSchema == ~parseAsync(SchemaOf(vReq.route), vRaw).success

\* C1: when req[source] violates the schema, the route handler is never
\* invoked: validate calls next exactly once, with a ValidationError of
\* status 422, and never without an error argument.
C1_InvalidNeverReachesHandler ==
  (vPc \notin {"idle", "received"} /\ RawViolatesSchema) =>
    /\ handlerSaw = <<>>
    /\ Len(nextCalls) = 1
    /\ IsDef(nextCalls[1])
    /\ "ValidationError" \in nextCalls[1][1].inst
    /\ nextCalls[1][1].statusCode = 422

\* a request with an invalid segment was answered 422 by the error handler
C1_Witness ==
  /\ vPc = "done"
  /\ RawViolatesSchema
  /\ vResp # <<>>
  /\ vResp[1].status = 422

\* C2: when validation succeeds the handler observes, in req[source], exactly
\* the coerced parse result: every key is a key of the result and holds its
\* coerced value, no unknown field and no uncoerced value remains.
C2_HandlerSeesOnlyCoerced ==
  \A i \in 1..Len(handlerSaw) :
    LET schema == SchemaOf(vReq.route)
        parsed == parseAsync(schema, vRaw).data
        seen == handlerSaw[i]
    IN /\ DOMAIN seen \subseteq DOMAIN parsed
       /\ \A k \in DOMAIN seen : seen[k] = parsed[k]
       /\ DOMAIN seen \subseteq DOMAIN schema.fields
       /\ \A k \in DOMAIN seen :
            schema.fields[k].kind = "coerceNumber" => seen[k].t = "number"

\* the handler ran on a query sent with page "2" and an unknown field, and
\* saw the number 2 and no unknown field
C2_Witness ==
  /\ handlerSaw # <<>>
  /\ "extra" \in DOMAIN vRaw
  /\ "page" \in DOMAIN vRaw
  /\ vRaw["page"] = Str("2")
  /\ handlerSaw[1]["page"] = Number(2)
  /\ "extra" \notin DOMAIN handlerSaw[1]

\* C4: every JSON response sent for a request, on success and on failure
\* alike, carries a timestamp and the originating request path.
C4_EveryResponseHasTimestampAndPath ==
  \A i \in 1..Len(vResp) :
    vResp[i].hasBody => Has(vResp[i], "timestamp") /\ Has(vResp[i], "path")

\* the constraints of the schema that a segment violates, as pairs of the
\* field and the constraint: a required field is missing, a value has not
\* the declared type, or a value of the declared type is below the minimum,
\* above the maximum or does not match the pattern
HasDeclaredType(rule, v) ==
  CASE rule.kind = "coerceNumber" -> v.t = "number" \/ ~NumberOfString(v.s).nan
    [] rule.kind = "enum" -> v.t = "string" /\ v.s \in rule.options
    [] rule.kind = "email" -> v.t = "string" /\ IsEmail(v.s)
    [] rule.kind = "object" -> v.t = "object"
    [] OTHER -> v.t = "string"

Magnitude(rule, v) ==
  IF rule.kind = "coerceNumber"
    THEN IF v.t = "number" THEN v.n ELSE NumberOfString(v.s).n
    ELSE StrLen(v.s)

ViolatedConstraints(schema, data) ==
  {c \in (DOMAIN schema.fields) \X {"required", "type", "min", "max", "pattern"} :
     LET f == c[1]
         rule == schema.fields[f]
         typed == f \in DOMAIN data /\ HasDeclaredType(rule, data[f])
     IN CASE c[2] = "required" -> f \notin DOMAIN data /\ ~rule.optional
          [] c[2] = "type" -> f \in DOMAIN data /\ ~HasDeclaredType(rule, data[f])
          [] c[2] = "min" ->
               typed /\ IsDef(rule.min) /\ Magnitude(rule, data[f]) < rule.min[1]
          [] c[2] = "max" ->
               typed /\ IsDef(rule.max) /\ Magnitude(rule, data[f]) > rule.max[1]
          [] OTHER -> typed /\ rule.pattern /\ ~MatchesSlugPattern(data[f].s)}

asyncHandlerMasksError(thrown) ==
  AppError("Internal server error", Undefined)

asyncHandler(thrown) == thrown

(***************************************************************************)
(* Specification of a request to the authentication routes through their   *)
(* validate middleware: routes/auth.routes.ts                              *)
(*   POST /api/auth/check-email  validate(checkEmailSchema), checkEmail    *)
(*   POST /api/auth/login        validate(loginSchema), login              *)
(***************************************************************************)
AuthRoutesValidated == {"POST /api/auth/check-email", "POST /api/auth/login"}

\* the bodies clients send: the fields themselves, or the fields inside a
\* key named body
RawAuthFields ==
  {Json(("email" :> e) @@ ("password" :> w) @@ ("extra" :> x)) :
     e \in Maybe({Str("ann@x.io"), Str("Ann@X.io"), Str("abc")}),
     w \in Maybe({Str("x"), Number(5)}),
     x \in Maybe({Str("x")})}

RawAuthBodies == RawAuthFields \cup {("body" :> Obj(b)) : b \in RawAuthFields}

InitAuthValidate ==
  /\ nodeEnv \in NodeEnvs
  /\ clock = 0
  /\ \E route \in AuthRoutesValidated, b \in RawAuthBodies :
       /\ vReq = [route |-> route, source |-> "body",
                  originalUrl |-> IF route = "POST /api/auth/login"
                                    THEN "/api/auth/login"
                                    ELSE "/api/auth/check-email",
                  url |-> IF route = "POST /api/auth/login"
                            THEN "/login" ELSE "/check-email",
                  body |-> b, query |-> NoKeys, params |-> NoKeys]
       /\ vRaw = b
  /\ vPc = "received"
  /\ nextCalls = <<>>
  /\ vErr = Undefined
  /\ handlerSaw = <<>>
  /\ vResp = <<>>
  /\ PgIdle /\ BuilderIdle /\ AuthIdle /\ ExtIdle

\* const { email, password } = req.body: the controller reads the fields of
\* the body and calls the service, whose prisma.user.findUnique({where:
\* {email}}) is rejected when email is undefined
AuthControllerRuns ==
  /\ vPc = "handler"
  /\ vReq.route \in AuthRoutesValidated
  /\ handlerSaw' = Append(handlerSaw, vReq.body)
  /\ IF "email" \in DOMAIN vReq.body
       THEN /\ vResp' = Append(vResp, sendSuccess(vReq, clock, Def(200),
                                                  "result.message",
                                                  Def("result"), Undefined))
            /\ vPc' = "done"
            /\ UNCHANGED vErr
       ELSE /\ vErr' = Def(asyncHandler(ForeignError(
                             "PrismaClientValidationError",
                             "Argument where needs at least one of id, email or username arguments")))
            /\ vPc' = "error"
            /\ UNCHANGED vResp
  /\ UNCHANGED <<vReq, vRaw, nextCalls, envVars, pgVars, builderVars, authVars,
                 extVars>>

NextAuthValidate ==
  \/ Validate
  \/ AuthControllerRuns
  \/ ErrorMiddleware

SpecAuthValidate == InitAuthValidate /\ [][NextAuthValidate]_vars

\* the body a client sent satisfies every field rule of the route's schema
BodySatisfiesFieldRules ==
  /\ vReq.route \in AuthRoutesValidated
  /\ "body" \notin DOMAIN vRaw
  /\ ViolatedConstraints(SchemaOf(vReq.route).fields["body"].shape, vRaw) = {}

\* C14: a body that satisfies all field rules of the schema of its auth
\* route passes validate without an error, and reaches the controller with
\* each field carrying its declared type.
C14_ValidBodyReachesController ==
  (vPc = "done" /\ BodySatisfiesFieldRules) =>
    /\ nextCalls = <<Undefined>>
    /\ Len(handlerSaw) = 1
    /\ "email" \in DOMAIN handlerSaw[1]
    /\ handlerSaw[1]["email"].t = "string"

(***************************************************************************)
(* The database, as the migrations define it                               *)
(***************************************************************************)
\* the unique indexes User_email_key and User_username_key
UserUniqueViolations(email, username) ==
  (IF \E u \in users : u.email = email THEN {"email"} ELSE {})
  \cup (IF \E u \in users : u.username = username THEN {"username"} ELSE {})

FindToken(identifier, token) ==
  {t \in tokens : t.identifier = identifier /\ t.token = token}

\* a row of User: the columns the authentication services read and write
UserRow(email, username, passwordHash, emailVerifiedAt) ==
  [email |-> email, username |-> username, passwordHash |-> passwordHash,
   emailVerifiedAt |-> emailVerifiedAt]

\* hashPassword: bcrypt, as a one-way image of the plain password
hashPassword(plainPassword) == "bcrypt(" \o plainPassword \o ")"

\* the test of the code services with the expiry test left out
NeverExpired(tokenRecord, now) == FALSE

\* tokenRecord.expires < new Date()
Expired(tokenRecord, now) == tokenRecord.expires < now

\* a fault no handler knows: the database cannot be reached
DatabaseUnreachable ==
  ForeignError("PrismaClientInitializationError",
               "Can't reach database server at db:5432")

(***************************************************************************)
(* Specification of the authentication routes: check-email and register    *)
(* requests, handled concurrently, one await at a time                     *)
(*   controllers/auth.controller.ts, services/auth.service.ts              *)
(***************************************************************************)
AuthRequestPath(route) ==
  IF route = "checkEmail"
    THEN [originalUrl |-> "/api/auth/check-email", url |-> "/check-email"]
    ELSE [originalUrl |-> "/api/auth/register", url |-> "/register"]

Init ==
  /\ nodeEnv \in NodeEnvs
  /\ clock = 0
  /\ AuthIdle
  /\ PgIdle /\ BuilderIdle /\ ValidateIdle /\ ExtIdle

AuthUnchanged ==
  UNCHANGED <<nodeEnv, clock, pgVars, builderVars, validateVars, extVars>>

\* the request moves on to its next await
Goto(r, pc) == rq' = [rq EXCEPT ![r].pc = pc]

\* the service throws: the controller's promise rejects
Throw(r, err) == rq' = [rq EXCEPT ![r].pc = "thrown", ![r].thrown = Def(err)]

Respond(r, response) ==
  /\ resp' = [resp EXCEPT ![r] = Append(@, response)]
  /\ rq' = [rq EXCEPT ![r].pc = "done"]

Tick ==
  /\ clock + TickStep <= MaxClock
  /\ clock' = clock + TickStep
  /\ UNCHANGED <<nodeEnv, authVars, pgVars, builderVars, validateVars, extVars>>

\* a client posts to /api/auth/check-email
ReceiveCheckEmail(r) ==
  /\ rq[r].pc \in {"idle", "done"}
  /\ served < MaxRequests
  /\ served' = served + 1
  /\ \E email \in Emails :
       rq' = [rq EXCEPT ![r] = [IdleRequest EXCEPT !.pc = "ce_findUser",
                                                   !.route = "checkEmail",
                                                   !.email = email]]
  /\ resp' = [resp EXCEPT ![r] = <<>>]
  /\ UNCHANGED <<users, tokens>>
  /\ AuthUnchanged

\* checkEmail: prisma.user.findUnique, then the code and its expiry
CheckEmailFindUser(r) ==
  /\ rq[r].pc = "ce_findUser"
  /\ IF \E u \in users : u.email = rq[r].email
       THEN Respond(r, sendSuccess(AuthRequestPath("checkEmail"), clock, Def(200),
                                   "Email is registered. Please login with your password.",
                                   Def("result"), Undefined))
       ELSE /\ \E code \in Codes :
                 rq' = [rq EXCEPT ![r].pc = "ce_upsert",
                                  ![r].code = code,
                                  ![r].expires = clock + TOKEN_EXPIRATION_MINUTES]
            /\ UNCHANGED resp
  /\ UNCHANGED <<users, tokens>>
  /\ AuthUnchanged /\ UNCHANGED served

\* checkEmail: prisma.verificationToken.upsert
CheckEmailUpsert(r) ==
  /\ rq[r].pc = "ce_upsert"
  /\ LET mine == FindToken(rq[r].email, rq[r].code)
         fresh == [identifier |-> rq[r].email, token |-> rq[r].code,
                   expires |-> rq[r].expires]
     IN IF mine # {}
          THEN /\ tokens' = (tokens \ mine) \cup {fresh}
               /\ Goto(r, "ce_send")
          ELSE IF \E t \in tokens : t.token = rq[r].code
            THEN /\ Throw(r, PrismaKnownRequestError("P2002", Def(<<"token">>)))
                 /\ UNCHANGED tokens
            ELSE /\ tokens' = tokens \cup {fresh}
                 /\ Goto(r, "ce_send")
  /\ UNCHANGED <<users, resp>>
  /\ AuthUnchanged /\ UNCHANGED served

\* checkEmail: sendEmail, and the controller's answer
CheckEmailSend(r) ==
  /\ rq[r].pc = "ce_send"
  /\ \/ /\ Respond(r, sendSuccess(AuthRequestPath("checkEmail"), clock, Def(200),
                                  "Verification code sent",
                                  Def("result"), Undefined))
     \/ /\ Throw(r, AppError("Failed to send verification email. Please try again.",
                             Def(500)))
        /\ UNCHANGED resp
  /\ UNCHANGED <<users, tokens>>
  /\ AuthUnchanged /\ UNCHANGED served

\* a client posts to /api/auth/register
ReceiveRegister(r) ==
  /\ rq[r].pc \in {"idle", "done"}
  /\ served < MaxRequests
  /\ served' = served + 1
  /\ \E email \in Emails, username \in Usernames, code \in Codes :
       rq' = [rq EXCEPT ![r] = [IdleRequest EXCEPT !.pc = "rg_findToken",
                                                   !.route = "register",
                                                   !.email = email,
                                                   !.username = username,
                                                   !.password = "secret1",
                                                   !.code = code]]
  /\ resp' = [resp EXCEPT ![r] = <<>>]
  /\ UNCHANGED <<users, tokens>>
  /\ AuthUnchanged

\* register: prisma.verificationToken.findUnique and the expiry test
RegisterFindToken(r) ==
  /\ rq[r].pc = "rg_findToken"
  /\ \/ LET found == FindToken(rq[r].email, rq[r].code)
        IN IF found = {}
             THEN Throw(r, UnauthorizedError(Def("Invalid or expired verification code")))
             ELSE IF \E t \in found : Expired(t, clock)
               THEN Goto(r, "rg_deleteExpired")
               ELSE Goto(r, "rg_findEmail")
     \/ Throw(r, DatabaseUnreachable)
  /\ UNCHANGED <<users, tokens, resp>>
  /\ AuthUnchanged /\ UNCHANGED served

\* register: the expired token is deleted and the request refused
RegisterDeleteExpired(r) ==
  /\ rq[r].pc = "rg_deleteExpired"
  /\ LET found == FindToken(rq[r].email, rq[r].code)
     IN IF found = {}
          THEN /\ Throw(r, PrismaKnownRequestError("P2025", Undefined))
               /\ UNCHANGED tokens
          ELSE /\ tokens' = tokens \ found
               /\ Throw(r, UnauthorizedError(
                    Def("Verification code has expired. Please request a new one.")))
  /\ UNCHANGED <<users, resp>>
  /\ AuthUnchanged /\ UNCHANGED served

\* register: prisma.user.findUnique({ where: { email } })
RegisterFindEmail(r) ==
  /\ rq[r].pc = "rg_findEmail"
  /\ IF \E u \in users : u.email = rq[r].email
       THEN Throw(r, ConflictError(Def("Email is already registered")))
       ELSE Goto(r, "rg_findUsername")
  /\ UNCHANGED <<users, tokens, resp>>
  /\ AuthUnchanged /\ UNCHANGED served

\* register: prisma.user.findUnique({ where: { username } }), hashPassword
RegisterFindUsername(r) ==
  /\ rq[r].pc = "rg_findUsername"
  /\ IF \E u \in users : u.username = rq[r].username
       THEN Throw(r, ConflictError(Def("Username is already taken")))
       ELSE Goto(r, "rg_create")
  /\ UNCHANGED <<users, tokens, resp>>
  /\ AuthUnchanged /\ UNCHANGED served

\* register: prisma.user.create, under the unique indexes of User
RegisterCreateUser(r) ==
  /\ rq[r].pc = "rg_create"
  /\ LET violated == UserUniqueViolations(rq[r].email, rq[r].username)
     IN IF violated # {}
          THEN /\ \E field \in violated :
                    Throw(r, PrismaKnownRequestError("P2002", Def(<<field>>)))
               /\ UNCHANGED users
          ELSE /\ users' = users \cup {UserRow(rq[r].email, rq[r].username,
                                                hashPassword(rq[r].password),
                                                Def(clock))}
               /\ Goto(r, "rg_deleteToken")
  /\ UNCHANGED <<tokens, resp>>
  /\ AuthUnchanged /\ UNCHANGED served

\* register: prisma.verificationToken.delete
RegisterDeleteToken(r) ==
  /\ rq[r].pc = "rg_deleteToken"
  /\ LET found == FindToken(rq[r].email, rq[r].code)
     IN IF found = {}
          THEN /\ Throw(r, PrismaKnownRequestError("P2025", Undefined))
               /\ UNCHANGED tokens
          ELSE /\ tokens' = tokens \ found
               /\ Goto(r, "rg_respond")
  /\ UNCHANGED <<users, resp>>
  /\ AuthUnchanged /\ UNCHANGED served

\* the register controller: logActivity, then sendCreated
RegisterRespond(r) ==
  /\ rq[r].pc = "rg_respond"
  /\ Respond(r, sendCreated(AuthRequestPath("register"), clock,
                            "Registration successful. Welcome to Liu Purnomo!",
                            Def("result")))
  /\ UNCHANGED <<users, tokens>>
  /\ AuthUnchanged /\ UNCHANGED served

\* the rejection reaches next through asyncHandler, and the global error
\* handler answers
ErrorHandler(r) ==
  /\ rq[r].pc = "thrown"
  /\ LET err == asyncHandler(rq[r].thrown[1])
     IN /\ resp' = [resp EXCEPT ![r] = Append(@, errorHandler(err, nodeEnv))]
        /\ rq' = [rq EXCEPT ![r].pc = "done", ![r].handled = Def(err)]
  /\ UNCHANGED <<users, tokens>>
  /\ AuthUnchanged /\ UNCHANGED served

Next ==
  \/ Tick
  \/ \E r \in Requests :
       \/ ReceiveCheckEmail(r)
       \/ CheckEmailFindUser(r)
       \/ CheckEmailUpsert(r)
       \/ CheckEmailSend(r)
       \/ ReceiveRegister(r)
       \/ RegisterFindToken(r)
       \/ RegisterDeleteExpired(r)
       \/ RegisterFindEmail(r)
       \/ RegisterFindUsername(r)
       \/ RegisterCreateUser(r)
       \/ RegisterDeleteToken(r)
       \/ RegisterRespond(r)
       \/ ErrorHandler(r)

Spec == Init /\ [][Next]_vars

\* the request was refused because it would break a uniqueness rule: by the
\* existence checks of the service, or by a unique index of the database
RejectedForUniqueness(err) ==
  \/ "ConflictError" \in err.inst
  \/ /\ err.name = "PrismaClientKnownRequestError"
     /\ err.code = "P2002"
     /\ IsDef(err.target)
     /\ err.target[1] \in {<<"email">>, <<"username">>, <<"slug">>}

\* the error handler has no branch for this error
Unrecognised(err) ==
  /\ "AppError" \notin err.inst
  /\ "ZodError" \notin err.inst
  /\ err.name \notin {"PrismaClientKnownRequestError", "PrismaClientValidationError",
                      "JsonWebTokenError", "TokenExpiredError", "MulterError"}

Answered(r) == rq[r].pc = "done" /\ IsDef(rq[r].thrown)

\* C8: every request refused because it would violate a uniqueness rule is
\* answered 409, also when only the unique index of the database detects it.
C8_UniquenessRejectedWith409 ==
  \A r \in Requests :
    (Answered(r) /\ RejectedForUniqueness(rq[r].thrown[1])) =>
      /\ Len(resp[r]) = 1
      /\ resp[r][1].status = 409

\* C9 as stated: a fault the handler does not recognise is answered with a
\* generic 500 whose body holds neither a stack trace nor the raw message,
\* whatever NODE_ENV is.
C9_NoInternalDetailInAnyEnv ==
  \A r \in Requests :
    (Answered(r) /\ Unrecognised(rq[r].thrown[1])) =>
      /\ Len(resp[r]) = 1
      /\ resp[r][1].status = 500
      /\ resp[r][1].body["message"] = "Internal server error"
      /\ ~Has(resp[r][1], "stack")
      /\ ~Has(resp[r][1], "error")
      /\ ~Has(resp[r][1], "errors")

\* C9 amended: a fault the handler does not recognise is answered with status
\* 500 and the generic message, without field errors; unless NODE_ENV is
\* "development" the body holds neither the stack trace nor the raw message.
C9_NoInternalDetailOutsideDevelopment ==
  \A r \in Requests :
    (Answered(r) /\ Unrecognised(rq[r].thrown[1])) =>
      /\ Len(resp[r]) = 1
      /\ resp[r][1].status = 500
      /\ resp[r][1].body["message"] = "Internal server error"
      /\ ~Has(resp[r][1], "errors")
      /\ nodeEnv # "development" =>
           ~Has(resp[r][1], "stack") /\ ~Has(resp[r][1], "error")

\* outside development, a request that hit an unreachable database was answered
C9_Witness ==
  \E r \in Requests :
    /\ Answered(r)
    /\ rq[r].thrown[1] = DatabaseUnreachable
    /\ nodeEnv = "production"
    /\ resp[r] # <<>>
    /\ resp[r][1].status = 500

\* C10: a domain error thrown inside an asyncHandler-wrapped controller
\* reaches the global error handler unchanged and produces exactly one
\* response, whose status and message are the error's statusCode and message.
C10_DomainErrorPropagatesUnchanged ==
  \A r \in Requests :
    (Answered(r) /\ "AppError" \in rq[r].thrown[1].inst) =>
      /\ rq[r].handled = rq[r].thrown
      /\ Len(resp[r]) = 1
      /\ resp[r][1].status = rq[r].thrown[1].statusCode
      /\ resp[r][1].body["message"] = rq[r].thrown[1].message

\* a register request refused by the email check was answered 409
C10_Witness ==
  \E r \in Requests :
    /\ Answered(r)
    /\ rq[r].route = "register"
    /\ "ConflictError" \in rq[r].thrown[1].inst
    /\ resp[r] # <<>>
    /\ resp[r][1].status = 409
    /\ resp[r][1].body["message"] = "Email is already registered"

(***************************************************************************)
(* lib/jwt.ts : the tokens of the API                                      *)
(*   a token is the text of the header, whether this server signed it and  *)
(*   is still within its lifetime, and the payload it carries              *)
(***************************************************************************)
MaxAccessRequests == 3

\* the payload generateAuthResponse signs (email and username follow userId)
TokenPayload(userId, role) == [userId |-> userId, role |-> role]

\* jwt.sign(payload, secret, {expiresIn})
encrypt(payload) == [text |-> "jwt", signed |-> TRUE, payload |-> payload]

\* a token this server did not sign, and a header that ends after "Bearer "
ForgedToken ==
  [text |-> "jwt", signed |-> FALSE, payload |-> TokenPayload("u1", "ADMIN")]

EmptyToken ==
  [text |-> "", signed |-> FALSE, payload |-> TokenPayload("u1", "ADMIN")]

extractTokenFromHeader(authHeader) ==
  IF ~IsDef(authHeader) THEN Undefined
  ELSE IF authHeader[1].scheme # "Bearer" THEN Undefined
  ELSE IF authHeader[1].token.text = "" THEN Undefined
  ELSE Def(authHeader[1].token)

\* what decrypt throws for a token that does not verify: the Error of
\* verifyToken's result in one version of lib/jwt.ts, the library's own
\* JsonWebTokenError in the other
DecryptErrors ==
  {ForeignError("Error", "Invalid token"),
   ForeignError("JsonWebTokenError", "invalid signature")}

(***************************************************************************)
(* middlewares/auth.ts : authenticate and requireRole                      *)
(***************************************************************************)
\* the outcomes of authenticate: req.user and the argument of next
authenticate(authHeader) ==
  LET token == extractTokenFromHeader(authHeader)
  IN IF ~IsDef(token)
       THEN {[user |-> Undefined,
              nextArg |-> Def(UnauthorizedError(Def(
                "Authentication required. Please provide a valid token.")))]}
     ELSE IF ~token[1].signed
       THEN {[user |-> Undefined, nextArg |-> Def(e)] : e \in DecryptErrors}
     ELSE {[user |-> Def(token[1].payload), nextArg |-> Undefined]}

\* roles.includes(role)
Includes(roles, role) == \E i \in 1..Len(roles) : roles[i] = role

\* `Access denied. Required role(s): ${roles.join(', ')}`
AccessDeniedMessage(roles) ==
  CASE roles = <<"ADMIN">> -> "Access denied. Required role(s): ADMIN"
    [] roles = <<"ADMIN", "AUTHOR">> ->
         "Access denied. Required role(s): ADMIN, AUTHOR"
    [] OTHER -> "Access denied. Required role(s): "

\* the argument requireRole(...roles) passes to next
requireRole(roles, user) ==
  IF ~IsDef(user)
    THEN Def(UnauthorizedError(Def("Authentication required")))
  ELSE IF ~Includes(roles, user[1].role)
    THEN Def(UnauthorizedError(Def(AccessDeniedMessage(roles))))
  ELSE Undefined

(***************************************************************************)
(* The routers: the middleware chain in front of each controller           *)
(***************************************************************************)
DeleteRoutes ==
  {"DELETE /api/tags/:id", "DELETE /api/categories/:id",
   "DELETE /api/activity-logs/:id", "DELETE /api/users/:id",
   "DELETE /api/users/me"}

\* the roles of the route's requireRole(...), if it has one
RequiredRoles(route) ==
  CASE route \in {"DELETE /api/tags/:id", "DELETE /api/categories/:id"} ->
         Def(<<"ADMIN", "AUTHOR">>)
    [] route \in {"DELETE /api/activity-logs/:id", "DELETE /api/users/:id"} ->
         Def(<<"ADMIN">>)
    [] OTHER -> Undefined

EntityKind(route) ==
  CASE route = "DELETE /api/tags/:id" -> "Tag"
    [] route = "DELETE /api/categories/:id" -> "Category"
    [] route = "DELETE /api/activity-logs/:id" -> "ActivityLog"
    [] OTHER -> "User"

AccessPath(route, target) ==
  CASE route = "DELETE /api/tags/:id" ->
         [originalUrl |-> "/api/tags/" \o target, url |-> "/" \o target]
    [] route = "DELETE /api/categories/:id" ->
         [originalUrl |-> "/api/categories/" \o target, url |-> "/" \o target]
    [] route = "DELETE /api/activity-logs/:id" ->
         [originalUrl |-> "/api/activity-logs/" \o target, url |-> "/" \o target]
    [] route = "DELETE /api/users/:id" ->
         [originalUrl |-> "/api/users/" \o target, url |-> "/" \o target]
    [] route = "DELETE /api/users/me" ->
         [originalUrl |-> "/api/users/me", url |-> "/me"]
    [] route = "POST /api/auth/login" ->
         [originalUrl |-> "/api/auth/login", url |-> "/login"]
    [] route = "POST /api/auth/refresh-token" ->
         [originalUrl |-> "/api/auth/refresh-token", url |-> "/refresh-token"]
    [] OTHER ->
         [originalUrl |-> "/api/auth/google/callback", url |-> "/google/callback"]

\* controllers/tag.controller.ts, deleteTag: res.status(200).json({...})
deleteTagResponse ==
  [status |-> 200, hasBody |-> TRUE,
   body |-> Json(("success" :> Def(TRUE))
                 @@ ("message" :> Def("Tag deleted successfully")))]

(***************************************************************************)
(* Specification of the protected routes: one request after another goes   *)
(* through authenticate, requireRole and its controller                    *)
(*   routes/*.routes.ts, middlewares/auth.ts, controllers, services        *)
(***************************************************************************)
EntityIds == {"e1", "e2", "e3"}

AuthorizationHeaders ==
  {Undefined,
   Def([scheme |-> "Basic", token |-> ForgedToken]),
   Def([scheme |-> "Bearer", token |-> EmptyToken]),
   Def([scheme |-> "Bearer", token |-> ForgedToken])}
  \cup {Def([scheme |-> "Bearer", token |-> t]) : t \in issued}

InitAccess ==
  /\ nodeEnv \in NodeEnvs
  /\ clock = 0
  /\ accounts \in [UserIds -> [exists : {TRUE}, role : UserRole,
                               isActive : {TRUE}]]
  /\ issued = {}
  /\ entities =
       {[kind |-> k, id |-> "e1", inUse |-> FALSE] :
          k \in {"Tag", "Category", "ActivityLog"}}
       \cup {[kind |-> k, id |-> "e2", inUse |-> TRUE] : k \in {"Tag", "Category"}}
  /\ aReq = IdleAccessRequest
  /\ aErr = Undefined
  /\ aRan = <<>>
  /\ aResp = <<>>
  /\ aServed = 0
  /\ PgIdle /\ BuilderIdle /\ ValidateIdle /\ AuthIdle /\ ConcIdle /\ AdminIdle

AccessFrame ==
  UNCHANGED <<envVars, pgVars, builderVars, validateVars, authVars, concVars,
              adminVars>>

\* the controller answers
AccessAnswer(response) ==
  /\ aResp' = Append(aResp, response)
  /\ aReq' = [aReq EXCEPT !.pc = "done"]
  /\ UNCHANGED aErr

\* the controller's promise rejects, or it calls next(error) itself
AccessFail(err) ==
  /\ aErr' = Def(err)
  /\ aReq' = [aReq EXCEPT !.pc = "error"]
  /\ UNCHANGED aResp

\* a client calls one of the delete routes
ReceiveDelete ==
  /\ aReq.pc \in {"idle", "done"}
  /\ aServed < MaxAccessRequests
  /\ aServed' = aServed + 1
  /\ \E route \in DeleteRoutes, h \in AuthorizationHeaders,
        target \in EntityIds \cup UserIds :
       /\ target \in UserIds <=> route = "DELETE /api/users/:id"
       /\ aReq' = [IdleAccessRequest EXCEPT
                     !.pc = "authenticate", !.route = route,
                     !.originalUrl = AccessPath(route, target).originalUrl,
                     !.url = AccessPath(route, target).url,
                     !.authorization = h, !.target = target]
  /\ aErr' = Undefined
  /\ aRan' = <<>>
  /\ aResp' = <<>>
  /\ UNCHANGED <<accounts, issued, entities>>
  /\ AccessFrame

\* the authenticate middleware of the route
Authenticate ==
  /\ aReq.pc = "authenticate"
  /\ \E o \in authenticate(aReq.authorization) :
       /\ aErr' = o.nextArg
       /\ aReq' = [aReq EXCEPT
                     !.user = o.user,
                     !.pc = IF IsDef(o.nextArg) THEN "error"
                            ELSE IF IsDef(RequiredRoles(aReq.route))
                              THEN "requireRole"
                            ELSE "controller"]
  /\ UNCHANGED <<accounts, issued, entities, aRan, aResp, aServed>>
  /\ AccessFrame

\* the requireRole(...) middleware of the route; the id in the path is well
\* formed, so the validate(..., 'params') after it passes the request on
RequireRole ==
  /\ aReq.pc = "requireRole"
  /\ LET nextArg == requireRole(RequiredRoles(aReq.route)[1], aReq.user)
     IN /\ aErr' = nextArg
        /\ aReq' = [aReq EXCEPT
                      !.pc = IF IsDef(nextArg) THEN "error" ELSE "controller"]
  /\ UNCHANGED <<accounts, issued, entities, aRan, aResp, aServed>>
  /\ AccessFrame

FindEntity(kind, id) == {e \in entities : e.kind = kind /\ e.id = id}

\* tagController.deleteTag with tagService.deleteTag
DeleteTag ==
  /\ aReq.pc = "controller"
  /\ aReq.route = "DELETE /api/tags/:id"
  /\ aRan' = Append(aRan, "deleteTag")
  /\ LET found == FindEntity("Tag", aReq.target)
     IN IF found = {}
          THEN AccessFail(NotFoundError(Def("Tag not found")))
               /\ UNCHANGED entities
        ELSE IF \E e \in found : e.inUse
          THEN AccessFail(ValidationError(
                 Def("Cannot delete tag that is assigned to posts"),
                 Def(<<[field |-> "id",
                        message |-> "This tag is used by 1 post(s). Remove the tag from all posts before deleting."]>>)))
               /\ UNCHANGED entities
        ELSE /\ entities' = entities \ found
             /\ AccessAnswer(deleteTagResponse)
  /\ UNCHANGED <<accounts, issued, aServed>>
  /\ AccessFrame

\* categoryController.deleteCategory with getCategoryById and deleteCategory
DeleteCategory ==
  /\ aReq.pc = "controller"
  /\ aReq.route = "DELETE /api/categories/:id"
  /\ aRan' = Append(aRan, "deleteCategory")
  /\ LET found == FindEntity("Category", aReq.target)
     IN IF found = {}
          THEN AccessFail(asyncHandler(NotFoundError(Def("Category not found"))))
               /\ UNCHANGED entities
        ELSE IF \E e \in found : e.inUse
          THEN AccessFail(asyncHandler(BadRequestError(Def(
                 "Cannot delete category with subcategories. Delete or reassign subcategories first."))))
               /\ UNCHANGED entities
        ELSE /\ entities' = entities \ found
             /\ AccessAnswer(sendNoContent(aReq))
  /\ UNCHANGED <<accounts, issued, aServed>>
  /\ AccessFrame

\* activityLogController.deleteActivityLog with the service of the same name
DeleteActivityLog ==
  /\ aReq.pc = "controller"
  /\ aReq.route = "DELETE /api/activity-logs/:id"
  /\ aRan' = Append(aRan, "deleteActivityLog")
  /\ LET found == FindEntity("ActivityLog", aReq.target)
     IN IF found = {}
          THEN AccessFail(asyncHandler(NotFoundError(Def("Activity log not found"))))
               /\ UNCHANGED entities
        ELSE /\ entities' = entities \ found
             /\ AccessAnswer(sendNoContent(aReq))
  /\ UNCHANGED <<accounts, issued, aServed>>
  /\ AccessFrame

\* userController.deleteUserById with userService.deleteUserById
DeleteUserById ==
  /\ aReq.pc = "controller"
  /\ aReq.route = "DELETE /api/users/:id"
  /\ aRan' = Append(aRan, "deleteUserById")
  /\ IF ~accounts[aReq.target].exists
       THEN AccessFail(asyncHandler(NotFoundError(Def("User not found"))))
            /\ UNCHANGED accounts
     ELSE IF accounts[aReq.target].role = "ADMIN"
       THEN AccessFail(asyncHandler(ForbiddenError(Def("Cannot delete admin users"))))
            /\ UNCHANGED accounts
     ELSE /\ accounts' = [accounts EXCEPT ![aReq.target].exists = FALSE]
          /\ AccessAnswer(sendNoContent(aReq))
  /\ UNCHANGED <<issued, entities, aServed>>
  /\ AccessFrame

\* userController.deleteCurrentUserAccount with the service of the same
\* name: the account is deactivated, not removed
DeleteCurrentUserAccount ==
  /\ aReq.pc = "controller"
  /\ aReq.route = "DELETE /api/users/me"
  /\ aRan' = Append(aRan, "deleteCurrentUserAccount")
  /\ LET userId == aReq.user[1].userId
     IN IF ~accounts[userId].exists
          THEN AccessFail(asyncHandler(NotFoundError(Def("User not found"))))
               /\ UNCHANGED accounts
        ELSE /\ accounts' = [accounts EXCEPT ![userId].isActive = FALSE]
             /\ AccessAnswer(sendNoContent(aReq))
  /\ UNCHANGED <<issued, entities, aServed>>
  /\ AccessFrame

\* next(err): the global error handler answers
AccessErrorHandler ==
  /\ aReq.pc = "error"
  /\ aResp' = Append(aResp, errorHandler(aErr[1], nodeEnv))
  /\ aReq' = [aReq EXCEPT !.pc = "done"]
  /\ UNCHANGED <<accounts, issued, entities, aErr, aRan, aServed>>
  /\ AccessFrame

(***************************************************************************)
(* The routes that sign a user in: password login, token refresh and the   *)
(* OAuth callbacks                                                         *)
(***************************************************************************)
SignInRoutes ==
  {"POST /api/auth/login", "POST /api/auth/refresh-token",
   "GET /api/auth/google/callback", "GET /api/auth/github/callback"}

\* generateAuthResponse(user): the tokens signed for the user
generateAuthResponse(userId) ==
  encrypt(TokenPayload(userId, accounts[userId].role))

\* res.redirect(redirectUrl)
Redirect == [status |-> 302, hasBody |-> FALSE, body |-> EmptyObject]

\* a client calls one of the sign-in routes: with the email of a user and a
\* right or wrong password, with a refresh token, or back from the provider
\* with the profile of a user
ReceiveSignIn ==
  /\ aReq.pc \in {"idle", "done"}
  /\ aServed < MaxAccessRequests
  /\ aServed' = aServed + 1
  /\ \E route \in SignInRoutes, u \in UserIds, password \in BOOLEAN,
        t \in {ForgedToken} \cup issued :
       aReq' = [IdleAccessRequest EXCEPT
                  !.pc = "controller", !.route = route,
                  !.originalUrl = AccessPath(route, u).originalUrl,
                  !.url = AccessPath(route, u).url,
                  !.target = IF route = "POST /api/auth/refresh-token"
                               THEN "" ELSE u,
                  !.password = (route = "POST /api/auth/login" /\ password),
                  !.refreshToken = IF route = "POST /api/auth/refresh-token"
                                     THEN Def(t) ELSE Undefined]
  /\ aErr' = Undefined
  /\ aRan' = <<>>
  /\ aResp' = <<>>
  /\ UNCHANGED <<accounts, issued, entities>>
  /\ AccessFrame

\* authController.login with authService.login
Login ==
  /\ aReq.pc = "controller"
  /\ aReq.route = "POST /api/auth/login"
  /\ aRan' = Append(aRan, "login")
  /\ LET user == accounts[aReq.target]
     IN IF ~user.exists
          THEN AccessFail(asyncHandler(UnauthorizedError(Def("Invalid email or password"))))
               /\ UNCHANGED issued
        ELSE IF ~user.isActive
          THEN AccessFail(asyncHandler(UnauthorizedError(Def(
                 "Account is deactivated. Please contact support."))))
               /\ UNCHANGED issued
        ELSE IF ~aReq.password
          THEN AccessFail(asyncHandler(UnauthorizedError(Def("Invalid email or password"))))
               /\ UNCHANGED issued
        ELSE /\ issued' = issued \cup {generateAuthResponse(aReq.target)}
             /\ AccessAnswer(sendSuccess(aReq, clock, Def(200),
                                         "Login successful. Welcome back!",
                                         Def("result"), Undefined))
  /\ UNCHANGED <<accounts, entities, aServed>>
  /\ AccessFrame

\* authController.refreshToken with authService.refreshAccessToken
RefreshToken ==
  /\ aReq.pc = "controller"
  /\ aReq.route = "POST /api/auth/refresh-token"
  /\ aRan' = Append(aRan, "refreshToken")
  /\ LET token == aReq.refreshToken[1]
         userId == token.payload.userId
     IN IF ~token.signed
          THEN /\ \E e \in DecryptErrors : AccessFail(asyncHandler(e))
               /\ UNCHANGED issued
        ELSE IF ~accounts[userId].exists
          THEN AccessFail(asyncHandler(UnauthorizedError(Def("User not found"))))
               /\ UNCHANGED issued
        ELSE IF ~accounts[userId].isActive
          THEN AccessFail(asyncHandler(UnauthorizedError(Def("Account is deactivated"))))
               /\ UNCHANGED issued
        ELSE /\ issued' = issued \cup {generateAuthResponse(userId)}
             /\ AccessAnswer(sendSuccess(aReq, clock, Def(200),
                                         "Token refreshed successfully",
                                         Def("result"), Undefined))
  /\ UNCHANGED <<accounts, entities, aServed>>
  /\ AccessFrame

\* handleGoogleOAuth / handleGitHubOAuth for the profile the provider sent:
\* the user is created when there is none with that email, and the tokens
\* are signed for the user found or created
OAuthSignIn(controller) ==
  /\ aRan' = Append(aRan, controller)
  /\ accounts' = IF accounts[aReq.target].exists
                   THEN accounts
                   ELSE [accounts EXCEPT ![aReq.target] =
                           [exists |-> TRUE, role |-> "USER", isActive |-> TRUE]]
  /\ issued' = issued \cup {encrypt(TokenPayload(aReq.target,
                                                 accounts'[aReq.target].role))}
  /\ AccessAnswer(Redirect)
  /\ UNCHANGED <<entities, aServed>>
  /\ AccessFrame

\* googleAuthController.googleOAuthCallback
GoogleOAuthCallback ==
  /\ aReq.pc = "controller"
  /\ aReq.route = "GET /api/auth/google/callback"
  /\ OAuthSignIn("googleOAuthCallback")

\* githubAuthController.githubOAuthCallback
GitHubOAuthCallback ==
  /\ aReq.pc = "controller"
  /\ aReq.route = "GET /api/auth/github/callback"
  /\ OAuthSignIn("githubOAuthCallback")

NextAccess ==
  \/ ReceiveDelete
  \/ ReceiveSignIn
  \/ Authenticate
  \/ RequireRole
  \/ DeleteTag
  \/ DeleteCategory
  \/ DeleteActivityLog
  \/ DeleteUserById
  \/ DeleteCurrentUserAccount
  \/ Login
  \/ RefreshToken
  \/ GoogleOAuthCallback
  \/ GitHubOAuthCallback
  \/ AccessErrorHandler

SpecAccess == InitAccess /\ [][NextAccess]_vars

\* the request was authenticated as a user whose role the route does not admit
RoleNotAdmitted ==
  /\ IsDef(aReq.user)
  /\ IsDef(RequiredRoles(aReq.route))
  /\ ~Includes(RequiredRoles(aReq.route)[1], aReq.user[1].role)

\* C11: a request of an authenticated user whose role is not among those
\* that requireRole(...) names is answered with status 403, and by nothing
\* else, without the protected controller having been invoked.
C11_WrongRoleRejectedWith403 ==
  (RoleNotAdmitted /\ aReq.pc = "done") =>
    /\ aRan = <<>>
    /\ Len(aResp) = 1
    /\ aResp[1].status = 403

\* what does hold of such a request: the controller is not invoked and the
\* one response is a refusal
C11_WrongRoleNeverReachesController ==
  RoleNotAdmitted =>
    /\ aRan = <<>>
    /\ \A i \in 1..Len(aResp) : aResp[i].status \in {401, 403}

\* the delete operation the request asked for was carried out
DeleteSucceeded ==
  /\ aReq.route \in DeleteRoutes
  /\ aReq.pc = "done"
  /\ aRan # <<>>
  /\ \A i \in 1..Len(aResp) : aResp[i].status < 400

\* C12: every successful delete operation of the API (user account, user by
\* id, category, activity log, tag) is answered with status 204 and an
\* empty body.
C12_SuccessfulDeleteIs204WithoutBody ==
  DeleteSucceeded =>
    /\ Len(aResp) = 1
    /\ aResp[1].status = 204
    /\ ~aResp[1].hasBody

\* the account of the user a token names is deactivated
Deactivated(userId) == accounts[userId].exists /\ ~accounts[userId].isActive

\* C19: once an account is deactivated, no authentication path grants
\* access as that user: login, token refresh and the OAuth callbacks sign no
\* token for it, and authenticate lets no request through as that user.
C19_DeactivatedAccountIsRefusedEverywhere ==
  [][/\ \A t \in issued' \ issued : ~Deactivated(t.payload.userId)
     /\ (/\ aReq.pc = "authenticate"
         /\ aReq'.pc \in {"requireRole", "controller"}) =>
          ~Deactivated(aReq'.user[1].userId)]_vars

(***************************************************************************)
(* Specification of two requests handled concurrently: each goes through   *)
(* validate, which gives up control at its await, and then through its     *)
(* controller or the error handler                                         *)
(*   GET  /api/categories  validate(getCategoriesQueryValidator, 'query'), *)
(*                         getAllCategories (sendSuccess)                  *)
(*   POST /api/tags        validate(createTagValidator), createTag         *)
(***************************************************************************)
\* one object for all requests, not one for each
SharedSegment(r) == "r1"

\* (req, _res, next): the request whose req[source] the middleware reads and
\* writes while it handles r
SegmentOf(r) == r

\* the issues of the validations before this one are reported again
validateKeepingIssues(r) ==
  LET o == validate(SchemaOf(cReq[r].route), cSeg[SegmentOf(r)])
      kept == IF \E q \in Requests \ {r} :
                    /\ IsDef(cReq[q].outcome)
                    /\ IsDef(cReq[q].outcome[1].nextArg)
                THEN <<[field |-> "earlier", message |-> "earlier"]>>
                ELSE <<>>
  IN IF IsDef(o.nextArg)
       THEN [o EXCEPT !.nextArg =
               Def(ValidationError(Def("Validation failed"),
                                   Def(kept \o o.nextArg[1].errors[1])))]
       ELSE o

\* what the middleware of the route of r settles on when it is called
validateRequest(r) == validate(SchemaOf(cReq[r].route), cSeg[SegmentOf(r)])

\* categoryController.getAllCategories: sendSuccess(res, 200, ...)
getAllCategoriesResponse(req, now) ==
  sendSuccess(req, now, Def(200), "Categories retrieved successfully",
              Def("categories"), Def("result.pagination"))

ControllerResponse(route, req, now) ==
  IF route = "GET /api/categories"
    THEN getAllCategoriesResponse(req, now)
    ELSE createTagResponse

ConcurrentUrls(route) ==
  IF route = "GET /api/categories"
    THEN {[originalUrl |-> "/api/categories?page=2", url |-> "/?page=2"],
          [originalUrl |-> "/api/categories", url |-> "/"]}
    ELSE {[originalUrl |-> "/api/tags", url |-> "/"]}

\* the segments of the two requests
ConcurrentQueries ==
  {Json(("page" :> p) @@ ("extra" :> x)) :
     p \in Maybe({Str("2"), Str("abc")}), x \in Maybe({Str("x")})}

ConcurrentBodies ==
  {Json(("name" :> Def(n)) @@ ("slug" :> Def(g)) @@ ("extra" :> x)) :
     n \in {Str("News"), Str(" News ")}, g \in {Str("news"), Str("")},
     x \in Maybe({Str("x")})}

ConcurrentRequests ==
  {[IdleConcurrentRequest EXCEPT !.pc = "received", !.route = "GET /api/categories",
                                 !.originalUrl = u.originalUrl, !.url = u.url,
                                 !.raw = raw] :
     u \in ConcurrentUrls("GET /api/categories"), raw \in ConcurrentQueries}
  \cup
  {[IdleConcurrentRequest EXCEPT !.pc = "received", !.route = "POST /api/tags",
                                 !.originalUrl = u.originalUrl, !.url = u.url,
                                 !.raw = raw] :
     u \in ConcurrentUrls("POST /api/tags"), raw \in ConcurrentBodies}

InitConcurrent ==
  /\ nodeEnv \in NodeEnvs
  /\ clock = 0
  /\ cReq \in [Requests -> ConcurrentRequests]
  /\ cSeg = [r \in Requests |-> cReq[r].raw]
  /\ PgIdle /\ BuilderIdle /\ ValidateIdle /\ AuthIdle /\ AccessIdle /\ AdminIdle

ConcurrentFrame ==
  UNCHANGED <<envVars, pgVars, builderVars, validateVars, authVars, accessVars,
              adminVars>>

\* validate is called: it reads req[source] and awaits schema.parseAsync
ValidateCalls(r) ==
  /\ cReq[r].pc = "received"
  /\ cReq' = [cReq EXCEPT ![r].pc = "parsing",
                          ![r].outcome = Def(validateRequest(r))]
  /\ UNCHANGED cSeg
  /\ ConcurrentFrame

\* the await returns: req[source] is replaced and next() is called, or
\* next(new ValidationError(...)) is
ValidateResumes(r) ==
  /\ cReq[r].pc = "parsing"
  /\ LET o == cReq[r].outcome[1]
     IN /\ cSeg' = IF IsDef(o.nextArg) THEN cSeg
                   ELSE [cSeg EXCEPT ![SegmentOf(r)] =
                           ReplaceInPlace(cSeg[SegmentOf(r)], o.segment)]
        /\ cReq' = [cReq EXCEPT
                      ![r].pc = IF IsDef(o.nextArg) THEN "error" ELSE "controller"]
  /\ ConcurrentFrame

\* the controller of the route reads req[source] and answers
ConcurrentController(r) ==
  /\ cReq[r].pc = "controller"
  /\ cReq' = [cReq EXCEPT
                ![r].pc = "done",
                ![r].seen = Def(cSeg[SegmentOf(r)]),
                ![r].response = Append(@, ControllerResponse(cReq[r].route,
                                                             cReq[r], clock))]
  /\ UNCHANGED cSeg
  /\ ConcurrentFrame

\* next(err): the global error handler answers
ConcurrentErrorHandler(r) ==
  /\ cReq[r].pc = "error"
  /\ cReq' = [cReq EXCEPT
                ![r].pc = "done",
                ![r].response = Append(@, errorHandler(cReq[r].outcome[1].nextArg[1],
                                                       nodeEnv))]
  /\ UNCHANGED cSeg
  /\ ConcurrentFrame

NextConcurrent ==
  \E r \in Requests :
    \/ ValidateCalls(r)
    \/ ValidateResumes(r)
    \/ ConcurrentController(r)
    \/ ConcurrentErrorHandler(r)

SpecConcurrent == InitConcurrent /\ [][NextConcurrent]_vars

\* what validate makes of the request's own raw segment, by itself
OwnOutcome(r) == validate(SchemaOf(cReq[r].route), cReq[r].raw)

\* C16: whatever the interleaving, the validation outcome and the response
\* of a request are those its own arguments determine, and its segment holds
\* its own raw or its own coerced data: no request sees or changes what
\* belongs to another request in flight.
C16_RequestsDoNotInterfere ==
  \A r \in Requests :
    /\ cSeg[r] \in {cReq[r].raw, OwnOutcome(r).segment}
    /\ IsDef(cReq[r].outcome) => cReq[r].outcome[1] = OwnOutcome(r)
    /\ IsDef(cReq[r].seen) => cReq[r].seen[1] = OwnOutcome(r).segment
    /\ cReq[r].pc = "done" =>
         cReq[r].response =
           <<IF IsDef(OwnOutcome(r).nextArg)
               THEN errorHandler(OwnOutcome(r).nextArg[1], nodeEnv)
               ELSE ControllerResponse(cReq[r].route, cReq[r], clock)>>

\* both requests were answered: r1, whose query is valid and carries an
\* unknown field, with 200 and without having seen the field; r2, whose body
\* is invalid, with 422
C16_Witness ==
  /\ cReq["r1"].pc = "done"
  /\ cReq["r2"].pc = "done"
  /\ cReq["r1"].route = "GET /api/categories"
  /\ "extra" \in DOMAIN cReq["r1"].raw
  /\ IsDef(cReq["r1"].seen)
  /\ "extra" \notin DOMAIN cReq["r1"].seen[1]
  /\ cReq["r1"].response[1].status = 200
  /\ cReq["r2"].route = "POST /api/tags"
  /\ cReq["r2"].response[1].status = 422

MaxCodeClock == 30
MaxCodeRequests == 2

CodeRequestPath(route) ==
  CASE route = "forgotPassword" ->
         [originalUrl |-> "/api/auth/forgot-password", url |-> "/forgot-password"]
    [] route = "resetPassword" ->
         [originalUrl |-> "/api/auth/reset-password", url |-> "/reset-password"]
    [] OTHER ->
         [originalUrl |-> "/api/auth/verify-email", url |-> "/verify-email"]

\* the user that registered before the requests under study arrive
RegisteredUser == UserRow("ann@x.io", "ann", hashPassword("secret1"), Def(0))

InitCodes ==
  /\ nodeEnv = "production"
  /\ clock = 0
  /\ users = {RegisteredUser}
  /\ tokens = {}
  /\ rq = [r \in Requests |-> IdleRequest]
  /\ served = 0
  /\ resp = [r \in Requests |-> <<>>]
  /\ PgIdle /\ BuilderIdle /\ ValidateIdle /\ ExtIdle

\* time passes, one expiry period at a time: a code issued at one instant is
\* exactly TOKEN_EXPIRATION_MINUTES old at the next, and older after that
Elapse ==
  /\ clock + TOKEN_EXPIRATION_MINUTES <= MaxCodeClock
  /\ clock' = clock + TOKEN_EXPIRATION_MINUTES
  /\ UNCHANGED <<nodeEnv, authVars, pgVars, builderVars, validateVars, extVars>>

\* a client posts to /api/auth/forgot-password
ReceiveForgotPassword(r) ==
  /\ rq[r].pc \in {"idle", "done"}
  /\ served < MaxRequests
  /\ served' = served + 1
  /\ \E email \in Emails :
       rq' = [rq EXCEPT ![r] = [IdleRequest EXCEPT !.pc = "fp_findUser",
                                                   !.route = "forgotPassword",
                                                   !.email = email]]
  /\ resp' = [resp EXCEPT ![r] = <<>>]
  /\ UNCHANGED <<users, tokens>>
  /\ AuthUnchanged

\* forgotPassword: prisma.user.findUnique, then the code and its expiry
ForgotFindUser(r) ==
  /\ rq[r].pc = "fp_findUser"
  /\ IF \E u \in users : u.email = rq[r].email
       THEN /\ \E code \in Codes :
                 rq' = [rq EXCEPT ![r].pc = "fp_upsert",
                                  ![r].code = code,
                                  ![r].expires = clock + TOKEN_EXPIRATION_MINUTES]
            /\ UNCHANGED resp
       ELSE Respond(r, sendSuccess(CodeRequestPath("forgotPassword"), clock, Def(200),
                                   "If the email exists, a password reset code has been sent.",
                                   Undefined, Undefined))
  /\ UNCHANGED <<users, tokens>>
  /\ AuthUnchanged /\ UNCHANGED served

\* forgotPassword: prisma.verificationToken.upsert
ForgotUpsert(r) ==
  /\ rq[r].pc = "fp_upsert"
  /\ LET mine == FindToken(rq[r].email, rq[r].code)
         fresh == [identifier |-> rq[r].email, token |-> rq[r].code,
                   expires |-> rq[r].expires]
     IN IF mine # {}
          THEN /\ tokens' = (tokens \ mine) \cup {fresh}
               /\ Goto(r, "fp_send")
          ELSE IF \E t \in tokens : t.token = rq[r].code
            THEN /\ Throw(r, PrismaKnownRequestError("P2002", Def(<<"token">>)))
                 /\ UNCHANGED tokens
            ELSE /\ tokens' = tokens \cup {fresh}
                 /\ Goto(r, "fp_send")
  /\ UNCHANGED <<users, resp>>
  /\ AuthUnchanged /\ UNCHANGED served

\* forgotPassword: sendEmail, and the controller's answer
ForgotSend(r) ==
  /\ rq[r].pc = "fp_send"
  /\ \/ Respond(r, sendSuccess(CodeRequestPath("forgotPassword"), clock, Def(200),
                               "If the email exists, a password reset code has been sent.",
                               Undefined, Undefined))
     \/ /\ Throw(r, AppError("Failed to send password reset email. Please try again.",
                             Def(500)))
        /\ UNCHANGED resp
  /\ UNCHANGED <<users, tokens>>
  /\ AuthUnchanged /\ UNCHANGED served

\* a client posts to /api/auth/reset-password
ReceiveResetPassword(r) ==
  /\ rq[r].pc \in {"idle", "done"}
  /\ served < MaxRequests
  /\ served' = served + 1
  /\ \E email \in Emails, code \in Codes :
       rq' = [rq EXCEPT ![r] = [IdleRequest EXCEPT !.pc = "rp_findToken",
                                                   !.route = "resetPassword",
                                                   !.email = email,
                                                   !.password = "secret2",
                                                   !.code = code]]
  /\ resp' = [resp EXCEPT ![r] = <<>>]
  /\ UNCHANGED <<users, tokens>>
  /\ AuthUnchanged

\* resetPassword: prisma.verificationToken.findUnique and the expiry test
ResetFindToken(r) ==
  /\ rq[r].pc = "rp_findToken"
  /\ LET found == FindToken(rq[r].email, rq[r].code)
     IN IF found = {}
          THEN Throw(r, UnauthorizedError(Def("Invalid or expired reset code")))
          ELSE IF \E t \in found : Expired(t, clock)
            THEN Goto(r, "rp_deleteExpired")
            ELSE Goto(r, "rp_findUser")
  /\ UNCHANGED <<users, tokens, resp>>
  /\ AuthUnchanged /\ UNCHANGED served

\* resetPassword: the expired token is deleted and the request refused
ResetDeleteExpired(r) ==
  /\ rq[r].pc = "rp_deleteExpired"
  /\ LET found == FindToken(rq[r].email, rq[r].code)
     IN IF found = {}
          THEN /\ Throw(r, PrismaKnownRequestError("P2025", Undefined))
               /\ UNCHANGED tokens
          ELSE /\ tokens' = tokens \ found
               /\ Throw(r, UnauthorizedError(
                    Def("Reset code has expired. Please request a new one.")))
  /\ UNCHANGED <<users, resp>>
  /\ AuthUnchanged /\ UNCHANGED served

\* resetPassword: prisma.user.findUnique({ where: { email } }), hashPassword
ResetFindUser(r) ==
  /\ rq[r].pc = "rp_findUser"
  /\ IF \E u \in users : u.email = rq[r].email
       THEN Goto(r, "rp_update")
       ELSE Throw(r, NotFoundError(Def("User not found")))
  /\ UNCHANGED <<users, tokens, resp>>
  /\ AuthUnchanged /\ UNCHANGED served

\* resetPassword: prisma.user.update({ data: { passwordHash } })
ResetUpdate(r) ==
  /\ rq[r].pc = "rp_update"
  /\ IF \E u \in users : u.email = rq[r].email
       THEN /\ users' = {IF u.email = rq[r].email
                           THEN [u EXCEPT !.passwordHash = hashPassword(rq[r].password)]
                           ELSE u : u \in users}
            /\ Goto(r, "rp_deleteToken")
       ELSE /\ Throw(r, PrismaKnownRequestError("P2025", Undefined))
            /\ UNCHANGED users
  /\ UNCHANGED <<tokens, resp>>
  /\ AuthUnchanged /\ UNCHANGED served

\* resetPassword: prisma.verificationToken.delete, and the controller's answer
ResetDeleteToken(r) ==
  /\ rq[r].pc = "rp_deleteToken"
  /\ LET found == FindToken(rq[r].email, rq[r].code)
     IN IF found = {}
          THEN /\ Throw(r, PrismaKnownRequestError("P2025", Undefined))
               /\ UNCHANGED <<tokens, resp>>
          ELSE /\ tokens' = tokens \ found
               /\ Respond(r, sendSuccess(CodeRequestPath("resetPassword"), clock, Def(200),
                    "Password has been reset successfully. You can now login with your new password.",
                    Undefined, Undefined))
  /\ UNCHANGED users
  /\ AuthUnchanged /\ UNCHANGED served

\* a client posts to /api/auth/verify-email
ReceiveVerifyEmail(r) ==
  /\ rq[r].pc \in {"idle", "done"}
  /\ served < MaxRequests
  /\ served' = served + 1
  /\ \E email \in Emails, code \in Codes :
       rq' = [rq EXCEPT ![r] = [IdleRequest EXCEPT !.pc = "ve_findToken",
                                                   !.route = "verifyEmail",
                                                   !.email = email,
                                                   !.code = code]]
  /\ resp' = [resp EXCEPT ![r] = <<>>]
  /\ UNCHANGED <<users, tokens>>
  /\ AuthUnchanged

\* verifyEmail: prisma.verificationToken.findUnique and the expiry test
VerifyFindToken(r) ==
  /\ rq[r].pc = "ve_findToken"
  /\ LET found == FindToken(rq[r].email, rq[r].code)
     IN IF found = {}
          THEN Throw(r, UnauthorizedError(Def("Invalid or expired verification code")))
          ELSE IF \E t \in found : Expired(t, clock)
            THEN Goto(r, "ve_deleteExpired")
            ELSE Goto(r, "ve_findUser")
  /\ UNCHANGED <<users, tokens, resp>>
  /\ AuthUnchanged /\ UNCHANGED served

\* verifyEmail: the expired token is deleted and the request refused
VerifyDeleteExpired(r) ==
  /\ rq[r].pc = "ve_deleteExpired"
  /\ LET found == FindToken(rq[r].email, rq[r].code)
     IN IF found = {}
          THEN /\ Throw(r, PrismaKnownRequestError("P2025", Undefined))
               /\ UNCHANGED tokens
          ELSE /\ tokens' = tokens \ found
               /\ Throw(r, UnauthorizedError(
                    Def("Verification code has expired. Please request a new one.")))
  /\ UNCHANGED <<users, resp>>
  /\ AuthUnchanged /\ UNCHANGED served

\* verifyEmail: prisma.user.findUnique({ where: { email } })
VerifyFindUser(r) ==
  /\ rq[r].pc = "ve_findUser"
  /\ IF \E u \in users : u.email = rq[r].email
       THEN Goto(r, "ve_update")
       ELSE Throw(r, NotFoundError(Def("User not found")))
  /\ UNCHANGED <<users, tokens, resp>>
  /\ AuthUnchanged /\ UNCHANGED served

\* verifyEmail: prisma.user.update({ data: { emailVerifiedAt: new Date() } })
VerifyUpdate(r) ==
  /\ rq[r].pc = "ve_update"
  /\ IF \E u \in users : u.email = rq[r].email
       THEN /\ users' = {IF u.email = rq[r].email
                           THEN [u EXCEPT !.emailVerifiedAt = Def(clock)]
                           ELSE u : u \in users}
            /\ Goto(r, "ve_deleteToken")
       ELSE /\ Throw(r, PrismaKnownRequestError("P2025", Undefined))
            /\ UNCHANGED users
  /\ UNCHANGED <<tokens, resp>>
  /\ AuthUnchanged /\ UNCHANGED served

\* verifyEmail: prisma.verificationToken.delete
VerifyDeleteToken(r) ==
  /\ rq[r].pc = "ve_deleteToken"
  /\ LET found == FindToken(rq[r].email, rq[r].code)
     IN IF found = {}
          THEN /\ Throw(r, PrismaKnownRequestError("P2025", Undefined))
               /\ UNCHANGED tokens
          ELSE /\ tokens' = tokens \ found
               /\ Goto(r, "ve_respond")
  /\ UNCHANGED <<users, resp>>
  /\ AuthUnchanged /\ UNCHANGED served

\* the verifyEmail controller: logActivity, then sendSuccess
VerifyRespond(r) ==
  /\ rq[r].pc = "ve_respond"
  /\ Respond(r, sendSuccess(CodeRequestPath("verifyEmail"), clock, Def(200),
                            "Email verified successfully",
                            Def("result"), Undefined))
  /\ UNCHANGED <<users, tokens>>
  /\ AuthUnchanged /\ UNCHANGED served

\* the server admits a bounded number of requests
AdmitsAnother == served < MaxCodeRequests

NextCodes ==
  \/ Elapse
  \/ \E r \in Requests :
       \/ AdmitsAnother /\ ReceiveCheckEmail(r)
       \/ CheckEmailFindUser(r)
       \/ CheckEmailUpsert(r)
       \/ CheckEmailSend(r)
       \/ AdmitsAnother /\ ReceiveRegister(r)
       \/ RegisterFindToken(r)
       \/ RegisterDeleteExpired(r)
       \/ RegisterFindEmail(r)
       \/ RegisterFindUsername(r)
       \/ RegisterCreateUser(r)
       \/ RegisterDeleteToken(r)
       \/ RegisterRespond(r)
       \/ AdmitsAnother /\ ReceiveForgotPassword(r)
       \/ ForgotFindUser(r)
       \/ ForgotUpsert(r)
       \/ ForgotSend(r)
       \/ AdmitsAnother /\ ReceiveResetPassword(r)
       \/ ResetFindToken(r)
       \/ ResetDeleteExpired(r)
       \/ ResetFindUser(r)
       \/ ResetUpdate(r)
       \/ ResetDeleteToken(r)
       \/ AdmitsAnother /\ ReceiveVerifyEmail(r)
       \/ VerifyFindToken(r)
       \/ VerifyDeleteExpired(r)
       \/ VerifyFindUser(r)
       \/ VerifyUpdate(r)
       \/ VerifyDeleteToken(r)
       \/ VerifyRespond(r)
       \/ ErrorHandler(r)

SpecCodes == InitCodes /\ [][NextCodes]_vars

\* the minutes elapsed since the code of a token record was issued
ElapsedSinceIssue(t) == clock - (t.expires - TOKEN_EXPIRATION_MINUTES)

\* the awaits of the three consuming services: the expiry test, the refusal
\* of an expired code, the steps after a passed test, and the write
TestPcs == {"rg_findToken", "rp_findToken", "ve_findToken"}
ExpiredPcs == {"rg_deleteExpired", "rp_deleteExpired", "ve_deleteExpired"}
PassedPcs == {"rg_findEmail", "rg_findUsername", "rg_create", "rg_deleteToken",
              "rg_respond", "rp_findUser", "rp_update", "rp_deleteToken",
              "ve_findUser", "ve_update", "ve_deleteToken", "ve_respond"}

\* request r completes its write in this step: the user is created, the
\* password changed or the email marked verified
Accepts(r) ==
  \/ rq[r].pc = "rg_create" /\ rq'[r].pc = "rg_deleteToken"
  \/ rq[r].pc = "rp_update" /\ rq'[r].pc = "rp_deleteToken"
  \/ rq[r].pc = "ve_update" /\ rq'[r].pc = "ve_deleteToken"

ObservableOutcome(r) ==
  [status |-> resp[r][1].status, message |-> resp[r][1].body["message"]]

IsRegistered(email) == \E u \in users : u.email = email

\* C20: a forgotPassword request for a registered email and one for an
\* email that is not registered are answered with the same status and the
\* same message, also when sending the email fails.
C20_ForgotPasswordOutcomeIndependentOfRegistration ==
  \A r1, r2 \in Requests :
    (/\ rq[r1].route = "forgotPassword" /\ rq[r1].pc = "done"
     /\ rq[r2].route = "forgotPassword" /\ rq[r2].pc = "done"
     /\ IsRegistered(rq[r1].email)
     /\ ~IsRegistered(rq[r2].email)) =>
      ObservableOutcome(r1) = ObservableOutcome(r2)

(***************************************************************************)
(* Specification of the category routes: createCategory, updateCategory    *)
(* and deleteCategory calls handled concurrently, one query at a time      *)
(*   services/category.service.ts, controllers/category.controller.ts      *)
(***************************************************************************)
MaxJobs == 3

Slugs == {"news", "tech", "misc"}

CategoryPath(id) ==
  IF id = "" THEN [originalUrl |-> "/api/categories", url |-> "/"]
  ELSE [originalUrl |-> "/api/categories/" \o id, url |-> "/" \o id]

\* _count.children of a category
ChildrenOf(id) ==
  {c \in CategoryIds : categories[c].exists /\ categories[c].parentId = Def(id)}

\* the rows ON DELETE CASCADE of Category_parentId_fkey removes with the rows S
RECURSIVE CascadeFrom(_)
CascadeFrom(S) ==
  LET more == S \cup UNION {ChildrenOf(c) : c \in S}
  IN IF more = S THEN S ELSE CascadeFrom(more)

\* the categories reached from id by following parentId
RECURSIVE AncestorsFrom(_)
AncestorsFrom(S) ==
  LET more == S \cup {categories[c].parentId[1] :
                        c \in {x \in S : categories[x].exists
                                         /\ IsDef(categories[x].parentId)}}
  IN IF more = S THEN S ELSE AncestorsFrom(more)

Ancestors(id) ==
  IF categories[id].exists /\ IsDef(categories[id].parentId)
    THEN AncestorsFrom({categories[id].parentId[1]})
    ELSE {}

\* data.parentId === id
IsItsOwnParent(parentId, id) == parentId = id

InitCategories ==
  /\ nodeEnv = "production"
  /\ clock = 0
  /\ categories =
       [c \in CategoryIds |->
          CASE c = "c1" -> [exists |-> TRUE, slug |-> "news",
                            parentId |-> Undefined, posts |-> 0]
            [] c = "c2" -> [exists |-> TRUE, slug |-> "tech",
                            parentId |-> Undefined, posts |-> 1]
            [] OTHER -> NoCategory]
  /\ jobs = [r \in Requests |-> IdleJob]
  /\ admitted = 0
  /\ PgIdle /\ BuilderIdle /\ ValidateIdle /\ AuthIdle /\ AccessIdle /\ ConcIdle

JobFrame ==
  UNCHANGED <<envVars, pgVars, builderVars, validateVars, authVars, accessVars,
              concVars>>

JobGoto(r, pc) == jobs' = [jobs EXCEPT ![r].pc = pc]

JobThrow(r, err) ==
  jobs' = [jobs EXCEPT ![r].pc = "thrown", ![r].thrown = Def(err)]

JobRespond(r, response) ==
  jobs' = [jobs EXCEPT ![r].pc = "done", ![r].response = <<response>>]

\* an ADMIN or AUTHOR posts to /api/categories
ReceiveCreateCategory(r) ==
  /\ jobs[r].pc \in {"idle", "done"}
  /\ admitted < MaxJobs
  /\ admitted' = admitted + 1
  /\ \E slug \in Slugs, parentId \in Maybe(CategoryIds) :
       jobs' = [jobs EXCEPT ![r] = [IdleJob EXCEPT !.pc = "cc_findSlug",
                                                   !.op = "createCategory",
                                                   !.slug = slug,
                                                   !.parentId = parentId]]
  /\ UNCHANGED categories
  /\ JobFrame

\* createCategory: prisma.category.findUnique({ where: { slug } })
CreateFindSlug(r) ==
  /\ jobs[r].pc = "cc_findSlug"
  /\ IF \E c \in CategoryIds : categories[c].exists /\ categories[c].slug = jobs[r].slug
       THEN JobThrow(r, ConflictError(Def("Category with this slug already exists")))
       ELSE IF IsDef(jobs[r].parentId)
         THEN JobGoto(r, "cc_findParent")
         ELSE JobGoto(r, "cc_create")
  /\ UNCHANGED <<categories, admitted>>
  /\ JobFrame

\* createCategory: prisma.category.findUnique({ where: { id: data.parentId } })
CreateFindParent(r) ==
  /\ jobs[r].pc = "cc_findParent"
  /\ IF categories[jobs[r].parentId[1]].exists
       THEN JobGoto(r, "cc_create")
       ELSE JobThrow(r, NotFoundError(Def("Parent category not found")))
  /\ UNCHANGED <<categories, admitted>>
  /\ JobFrame

\* createCategory: prisma.category.create under Category_slug_key and
\* Category_parentId_fkey, then the controller's logActivity and sendCreated
CreateCategoryRow(r) ==
  /\ jobs[r].pc = "cc_create"
  /\ IF \E c \in CategoryIds : categories[c].exists /\ categories[c].slug = jobs[r].slug
       THEN /\ JobThrow(r, PrismaKnownRequestError("P2002", Def(<<"slug">>)))
            /\ UNCHANGED categories
     ELSE IF IsDef(jobs[r].parentId) /\ ~categories[jobs[r].parentId[1]].exists
       THEN /\ JobThrow(r, PrismaKnownRequestError("P2003", Undefined))
            /\ UNCHANGED categories
     ELSE IF \A c \in CategoryIds : categories[c].exists
       THEN /\ JobThrow(r, DatabaseUnreachable)
            /\ UNCHANGED categories
     ELSE \E id \in {c \in CategoryIds : ~categories[c].exists} :
            /\ categories' = [categories EXCEPT ![id] =
                                [exists |-> TRUE, slug |-> jobs[r].slug,
                                 parentId |-> jobs[r].parentId, posts |-> 0]]
            /\ JobRespond(r, sendCreated(CategoryPath(""), clock,
                                         "Category created successfully",
                                         Def("category")))
  /\ UNCHANGED admitted
  /\ JobFrame

\* an ADMIN or AUTHOR patches /api/categories/:id with a parentId, null or
\* the id of a category
ReceiveUpdateCategory(r) ==
  /\ jobs[r].pc \in {"idle", "done"}
  /\ admitted < MaxJobs
  /\ admitted' = admitted + 1
  /\ \E id \in CategoryIds, parentId \in Maybe(CategoryIds) :
       jobs' = [jobs EXCEPT ![r] = [IdleJob EXCEPT !.pc = "uc_findExisting",
                                                   !.op = "updateCategory",
                                                   !.id = id,
                                                   !.parentId = parentId]]
  /\ UNCHANGED categories
  /\ JobFrame

\* updateCategory: prisma.category.findUnique({ where: { id } })
UpdateFindExisting(r) ==
  /\ jobs[r].pc = "uc_findExisting"
  /\ IF ~categories[jobs[r].id].exists
       THEN JobThrow(r, NotFoundError(Def("Category not found")))
       ELSE IF IsDef(jobs[r].parentId)
         THEN JobGoto(r, "uc_findParent")
         ELSE JobGoto(r, "uc_update")
  /\ UNCHANGED <<categories, admitted>>
  /\ JobFrame

\* updateCategory: the parent is looked up, then the circular reference test
UpdateFindParent(r) ==
  /\ jobs[r].pc = "uc_findParent"
  /\ IF ~categories[jobs[r].parentId[1]].exists
       THEN JobThrow(r, NotFoundError(Def("Parent category not found")))
       ELSE IF IsItsOwnParent(jobs[r].parentId[1], jobs[r].id)
         THEN JobThrow(r, BadRequestError(Def("Category cannot be its own parent")))
         ELSE JobGoto(r, "uc_update")
  /\ UNCHANGED <<categories, admitted>>
  /\ JobFrame

\* updateCategory: prisma.category.update, then the controller's logActivity
\* and sendSuccess
UpdateCategoryRow(r) ==
  /\ jobs[r].pc = "uc_update"
  /\ IF ~categories[jobs[r].id].exists
       THEN /\ JobThrow(r, PrismaKnownRequestError("P2025", Undefined))
            /\ UNCHANGED categories
     ELSE IF IsDef(jobs[r].parentId) /\ ~categories[jobs[r].parentId[1]].exists
       THEN /\ JobThrow(r, PrismaKnownRequestError("P2003", Undefined))
            /\ UNCHANGED categories
     ELSE /\ categories' = [categories EXCEPT ![jobs[r].id].parentId = jobs[r].parentId]
          /\ JobRespond(r, sendSuccess(CategoryPath(jobs[r].id), clock, Def(200),
                                       "Category updated successfully",
                                       Def("category"), Undefined))
  /\ UNCHANGED admitted
  /\ JobFrame

\* an ADMIN or AUTHOR sends DELETE /api/categories/:id
ReceiveDeleteCategory(r) ==
  /\ jobs[r].pc \in {"idle", "done"}
  /\ admitted < MaxJobs
  /\ admitted' = admitted + 1
  /\ \E id \in CategoryIds :
       jobs' = [jobs EXCEPT ![r] = [IdleJob EXCEPT !.pc = "dc_getById",
                                                   !.op = "deleteCategory",
                                                   !.id = id]]
  /\ UNCHANGED categories
  /\ JobFrame

\* the deleteCategory controller: categoryService.getCategoryById(id)
DeleteGetById(r) ==
  /\ jobs[r].pc = "dc_getById"
  /\ IF categories[jobs[r].id].exists
       THEN JobGoto(r, "dc_find")
       ELSE JobThrow(r, NotFoundError(Def("Category not found")))
  /\ UNCHANGED <<categories, admitted>>
  /\ JobFrame

\* deleteCategory: findUnique with _count of children and posts, and the
\* two tests on the counts
DeleteFind(r) ==
  /\ jobs[r].pc = "dc_find"
  /\ IF ~categories[jobs[r].id].exists
       THEN JobThrow(r, NotFoundError(Def("Category not found")))
     ELSE IF ChildrenOf(jobs[r].id) # {}
       THEN JobThrow(r, BadRequestError(Def(
              "Cannot delete category with subcategories. Delete or reassign subcategories first.")))
     ELSE IF categories[jobs[r].id].posts > 0
       THEN JobThrow(r, BadRequestError(Def(
              "Cannot delete category with posts. Reassign or delete posts first.")))
     ELSE JobGoto(r, "dc_delete")
  /\ UNCHANGED <<categories, admitted>>
  /\ JobFrame

\* deleteCategory: prisma.category.delete, under ON DELETE CASCADE of
\* Category_parentId_fkey and ON DELETE RESTRICT of Post_categoryId_fkey,
\* then the controller's logActivity and sendNoContent
DeleteCategoryRow(r) ==
  /\ jobs[r].pc = "dc_delete"
  /\ LET removed == CascadeFrom({jobs[r].id})
     IN IF ~categories[jobs[r].id].exists
          THEN /\ JobThrow(r, PrismaKnownRequestError("P2025", Undefined))
               /\ UNCHANGED categories
        ELSE IF \E c \in removed : categories[c].posts > 0
          THEN /\ JobThrow(r, PrismaKnownRequestError("P2003", Undefined))
               /\ UNCHANGED categories
        ELSE /\ categories' = [c \in CategoryIds |->
                                 IF c \in removed THEN NoCategory ELSE categories[c]]
             /\ JobRespond(r, sendNoContent(CategoryPath(jobs[r].id)))
  /\ UNCHANGED admitted
  /\ JobFrame

\* the rejection reaches next through asyncHandler, and the global error
\* handler answers
JobErrorHandler(r) ==
  /\ jobs[r].pc = "thrown"
  /\ JobRespond(r, errorHandler(asyncHandler(jobs[r].thrown[1]), nodeEnv))
  /\ UNCHANGED <<categories, admitted>>
  /\ JobFrame

NextCategories ==
  \E r \in Requests :
    \/ ReceiveCreateCategory(r)
    \/ CreateFindSlug(r)
    \/ CreateFindParent(r)
    \/ CreateCategoryRow(r)
    \/ ReceiveUpdateCategory(r)
    \/ UpdateFindExisting(r)
    \/ UpdateFindParent(r)
    \/ UpdateCategoryRow(r)
    \/ ReceiveDeleteCategory(r)
    \/ DeleteGetById(r)
    \/ DeleteFind(r)
    \/ DeleteCategoryRow(r)
    \/ JobErrorHandler(r)

SpecCategories == InitCategories /\ [][NextCategories]_vars

\* C21: deleteCategory never removes a category that has child categories
\* or posts at the moment the delete is executed, also when a child was
\* attached between the check and the delete: every category a step removes
\* has no child and no post in the state the step starts from.
C21_NoCategoryWithChildrenOrPostsRemoved ==
  [][\A c \in CategoryIds :
       (categories[c].exists /\ ~categories'[c].exists) =>
         /\ ChildrenOf(c) = {}
         /\ categories[c].posts = 0]_vars

\* C23: the parent relation contains no cycle: no category is its own
\* ancestor.
C23_ParentRelationIsAcyclic ==
  \A c \in CategoryIds : c \notin Ancestors(c)

(***************************************************************************)
(* Specification of the admin user routes: updateUserById and              *)
(* deleteUserById calls handled concurrently, one query at a time          *)
(*   services/user.service.ts, controllers/user.controller.ts              *)
(***************************************************************************)
InitUsers ==
  /\ nodeEnv = "production"
  /\ clock = 0
  /\ accounts \in [UserIds -> [exists : {TRUE}, role : UserRole,
                               isActive : {TRUE}]]
  /\ issued = {}
  /\ entities = {}
  /\ aReq = IdleAccessRequest
  /\ aErr = Undefined
  /\ aRan = <<>>
  /\ aResp = <<>>
  /\ aServed = 0
  /\ PgIdle /\ BuilderIdle /\ ValidateIdle /\ AuthIdle /\ ConcIdle
  /\ AdminIdle

UserJobFrame ==
  UNCHANGED <<envVars, pgVars, builderVars, validateVars, authVars, concVars,
              categories, issued, entities, aReq, aErr, aRan, aResp, aServed>>

\* an ADMIN sends PUT /api/users/:id with a role
ReceiveUpdateUser(r) ==
  /\ jobs[r].pc \in {"idle", "done"}
  /\ admitted < MaxJobs
  /\ admitted' = admitted + 1
  /\ \E id \in UserIds, role \in UserRole :
       jobs' = [jobs EXCEPT ![r] = [IdleJob EXCEPT !.pc = "uu_find",
                                                   !.op = "updateUserById",
                                                   !.id = id,
                                                   !.role = Def(role)]]
  /\ UNCHANGED accounts
  /\ UserJobFrame

\* updateUserById: prisma.user.findUnique({ where: { id } })
UpdateUserFind(r) ==
  /\ jobs[r].pc = "uu_find"
  /\ IF accounts[jobs[r].id].exists
       THEN JobGoto(r, "uu_update")
       ELSE JobThrow(r, NotFoundError(Def("User not found")))
  /\ UNCHANGED <<accounts, admitted>>
  /\ UserJobFrame

\* updateUserById: prisma.user.update, then the controller's logActivity and
\* sendSuccess
UpdateUserRow(r) ==
  /\ jobs[r].pc = "uu_update"
  /\ IF accounts[jobs[r].id].exists
       THEN /\ accounts' = [accounts EXCEPT ![jobs[r].id].role = jobs[r].role[1]]
            /\ JobRespond(r, sendSuccess(AccessPath("DELETE /api/users/:id", jobs[r].id),
                                         clock, Def(200), "User updated successfully",
                                         Def("user"), Undefined))
       ELSE /\ JobThrow(r, PrismaKnownRequestError("P2025", Undefined))
            /\ UNCHANGED accounts
  /\ UNCHANGED admitted
  /\ UserJobFrame

\* an ADMIN sends DELETE /api/users/:id
ReceiveDeleteUser(r) ==
  /\ jobs[r].pc \in {"idle", "done"}
  /\ admitted < MaxJobs
  /\ admitted' = admitted + 1
  /\ \E id \in UserIds :
       jobs' = [jobs EXCEPT ![r] = [IdleJob EXCEPT !.pc = "du_find",
                                                   !.op = "deleteUserById",
                                                   !.id = id]]
  /\ UNCHANGED accounts
  /\ UserJobFrame

\* deleteUserById: prisma.user.findUnique and the test of the role
DeleteUserFind(r) ==
  /\ jobs[r].pc = "du_find"
  /\ IF ~accounts[jobs[r].id].exists
       THEN JobThrow(r, NotFoundError(Def("User not found")))
     ELSE IF accounts[jobs[r].id].role = "ADMIN"
       THEN JobThrow(r, ForbiddenError(Def("Cannot delete admin users")))
     ELSE JobGoto(r, "du_delete")
  /\ UNCHANGED <<accounts, admitted>>
  /\ UserJobFrame

\* deleteUserById: prisma.user.delete, then the controller's logActivity and
\* sendNoContent
DeleteUserRow(r) ==
  /\ jobs[r].pc = "du_delete"
  /\ IF accounts[jobs[r].id].exists
       THEN /\ accounts' = [accounts EXCEPT ![jobs[r].id].exists = FALSE]
            /\ JobRespond(r, sendNoContent(AccessPath("DELETE /api/users/:id", jobs[r].id)))
       ELSE /\ JobThrow(r, PrismaKnownRequestError("P2025", Undefined))
            /\ UNCHANGED accounts
  /\ UNCHANGED admitted
  /\ UserJobFrame

\* the rejection reaches next through asyncHandler, and the global error
\* handler answers
UserJobErrorHandler(r) ==
  /\ jobs[r].pc = "thrown"
  /\ JobRespond(r, errorHandler(asyncHandler(jobs[r].thrown[1]), nodeEnv))
  /\ UNCHANGED <<accounts, admitted>>
  /\ UserJobFrame

NextUsers ==
  \E r \in Requests :
    \/ ReceiveUpdateUser(r)
    \/ UpdateUserFind(r)
    \/ UpdateUserRow(r)
    \/ ReceiveDeleteUser(r)
    \/ DeleteUserFind(r)
    \/ DeleteUserRow(r)
    \/ UserJobErrorHandler(r)

SpecUsers == InitUsers /\ [][NextUsers]_vars

\* C22: deleteUserById never deletes a user whose role is ADMIN at the time
\* of the deletion, whatever a concurrent updateUserById does to the role:
\* every user a step removes is not an ADMIN in the state the step starts from.
C22_NoAdminDeleted ==
  [][\A u \in UserIds :
       (accounts[u].exists /\ ~accounts'[u].exists) =>
         accounts[u].role # "ADMIN"]_vars

(***************************************************************************)
(* Specification of the list operations: each computes the pagination      *)
(* metadata of its answer from the validated page and limit of the query   *)
(*   getAllUsers, getAllActivityLogs, getAllCategories, getAllTags         *)
(***************************************************************************)
ListOperations ==
  {"getAllUsers", "getAllActivityLogs", "getAllCategories", "getAllTags"}

\* const { page = 1, limit = <default> } = query, both numbers after validation
PageOfQuery(page) == IF IsDef(page) THEN page[1] ELSE 1

LimitOfQuery(limit, default) == IF IsDef(limit) THEN limit[1] ELSE default

\* user.service.ts, getAllUsers
getAllUsersPagination(totalItems, page, limit) ==
  calculatePagination(totalItems, Def(PageOfQuery(page)), Def(LimitOfQuery(limit, 10)))

\* activity-log.service.ts, getAllActivityLogs
getAllActivityLogsPagination(totalItems, page, limit) ==
  calculatePagination(totalItems, Def(PageOfQuery(page)), Def(LimitOfQuery(limit, 20)))

\* category.service.ts, getAllCategories
getAllCategoriesPagination(totalItems, page, limit) ==
  LET p == PageOfQuery(page)
      l == LimitOfQuery(limit, 10)
      totalPages == MathCeilOfQuotient(totalItems, l)
  IN [currentPage |-> Num(p),
      perPage |-> l,
      totalItems |-> totalItems,
      totalPages |-> totalPages,
      hasNextPage |-> JsLess(Num(p), totalPages),
      hasPreviousPage |-> p > 1]

\* tag.service.ts, getAllTags
getAllTagsPagination(totalItems, page, limit) ==
  LET pageNum == PageOfQuery(page)
      limitNum == LimitOfQuery(limit, 10)
      totalPages == MathCeilOfQuotient(totalItems, limitNum)
  IN [currentPage |-> Num(pageNum),
      totalPages |-> totalPages,
      totalItems |-> totalItems,
      itemsPerPage |-> limitNum,
      hasNextPage |-> JsLess(Num(pageNum), totalPages),
      hasPreviousPage |-> pageNum > 1]

PaginationOfList(op, totalItems, page, limit) ==
  CASE op = "getAllUsers" -> getAllUsersPagination(totalItems, page, limit)
    [] op = "getAllActivityLogs" -> getAllActivityLogsPagination(totalItems, page, limit)
    [] op = "getAllCategories" -> getAllCategoriesPagination(totalItems, page, limit)
    [] OTHER -> getAllTagsPagination(totalItems, page, limit)

\* the validators admit a page and a limit of at least 1
InitLists ==
  /\ nodeEnv = "production"
  /\ clock = 0
  /\ pgArgs \in [op : ListOperations, totalItems : 0..MaxTotal,
                 page : Maybe(1..MaxPage), limit : Maybe(1..MaxLimit)]
  /\ pgOut = <<>>
  /\ BuilderIdle /\ ValidateIdle /\ AuthIdle /\ ExtIdle

ListOperation ==
  /\ pgOut = <<>>
  /\ pgOut' = <<PaginationOfList(pgArgs.op, pgArgs.totalItems, pgArgs.page,
                                 pgArgs.limit)>>
  /\ UNCHANGED <<pgArgs, envVars, builderVars, validateVars, authVars, extVars>>

NextLists == ListOperation

SpecLists == InitLists /\ [][NextLists]_vars

\* C24: the pagination metadata of every list operation has currentPage
\* within [1, totalPages], or equal to 1 when totalPages is 0, for any
\* requested page.
C24_ListCurrentPageWithinRange ==
  \A i \in 1..Len(pgOut) :
    /\ JsLessEq(Num(1), pgOut[i].currentPage)
    /\ JsLessEq(pgOut[i].currentPage, MathMax(pgOut[i].totalPages, Num(1)))

(***************************************************************************)
(* Specification of the OAuth sign-ins: googleAuth.service.ts and          *)
(* githubAuth.service.ts, called by the OAuth callback controllers         *)
(*   handleGoogleOAuth, generateUsernameFromEmail                          *)
(*   handleGitHubOAuth, generateUsernameFromGitHub                         *)
(* Strings the services take apart are sequences of characters.            *)
(***************************************************************************)
MaxSignIns == 3

UpperCase == <<"A", "B", "C", "D", "E", "F", "G", "H", "I", "J", "K", "L", "M",
               "N", "O", "P", "Q", "R", "S", "T", "U", "V", "W", "X", "Y", "Z">>

LowerCase == <<"a", "b", "c", "d", "e", "f", "g", "h", "i", "j", "k", "l", "m",
               "n", "o", "p", "q", "r", "s", "t", "u", "v", "w", "x", "y", "z">>

Digits == <<"0", "1", "2", "3", "4", "5", "6", "7", "8", "9">>

\* String.prototype.toLowerCase
toLowerCase(s) ==
  [i \in 1..Len(s) |->
     IF \E k \in 1..Len(UpperCase) : UpperCase[k] = s[i]
       THEN LowerCase[CHOOSE k \in 1..Len(UpperCase) : UpperCase[k] = s[i]]
       ELSE s[i]]

\* .replace(/[^a-z0-9_]/g, '_')
ReplaceNonWord(s) ==
  LET word == {LowerCase[k] : k \in 1..Len(LowerCase)}
              \cup {Digits[k] : k \in 1..Len(Digits)} \cup {"_"}
  IN [i \in 1..Len(s) |-> IF s[i] \in word THEN s[i] ELSE "_"]

\* email.split('@')[0]
EmailPart(email) ==
  LET ats == {i \in 1..Len(email) : email[i] = "@"}
  IN IF ats = {} THEN email
     ELSE SubSeq(email, 1, (CHOOSE i \in ats : \A j \in ats : i <= j) - 1)

\* the decimal digits of a positive counter
RECURSIVE DecimalOf(_)
DecimalOf(n) ==
  IF n < 10 THEN <<Digits[n + 1]>>
  ELSE DecimalOf(n \div 10) \o <<Digits[(n % 10) + 1]>>

\* the base username of generateUsernameFromEmail: Undefined where it throws
\* Error('Invalid email format')
BaseUsernameFromEmail(email) ==
  IF EmailPart(email) = <<>> THEN Undefined
  ELSE Def(ReplaceNonWord(toLowerCase(EmailPart(email))))

\* the base username of generateUsernameFromGitHub
BaseUsernameFromGitHub(githubUsername, email) ==
  LET baseUsername == ReplaceNonWord(toLowerCase(githubUsername))
  IN IF Len(baseUsername) < 3 THEN BaseUsernameFromEmail(email)
     ELSE Def(baseUsername)

OAuthProviders == {"google", "github"}

OAuthEmails == {<<"a", "n", "n", "@", "x">>, <<"A", "n", "n", "@", "y">>,
                <<"a", ".", "b", "@", "x">>}

GitHubUsernames == {<<"A", "n", "n">>, <<"a", "b">>}

\* generateRandomPassword
TempPasswords == {"Tmp#Pass1"}

IdleSignIn == [pc |-> "idle", provider |-> "", email |-> <<>>,
               githubUsername |-> <<>>, baseUsername |-> <<>>,
               username |-> <<>>, counter |-> 1, thrown |-> Undefined,
               response |-> <<>>]

\* the user table holds nobody, or one verified user named ann
InitOAuth ==
  /\ nodeEnv = "production"
  /\ clock = 0
  /\ users \in {{}, {UserRow(<<"a", "n", "n", "@", "z">>, <<"a", "n", "n">>,
                             hashPassword("secret1"), Def(0))},
                    {UserRow(<<"a", "n", "n", "@", "x">>, <<"a", "n", "n">>,
                             hashPassword("secret1"), Undefined)}}
  /\ tokens = {}
  /\ rq = [r \in Requests |-> IdleRequest]
  /\ served = 0
  /\ resp = [r \in Requests |-> <<>>]
  /\ categories = [c \in CategoryIds |-> NoCategory]
  /\ jobs = [r \in Requests |-> IdleSignIn]
  /\ admitted = 0
  /\ PgIdle /\ BuilderIdle /\ ValidateIdle /\ AccessIdle /\ ConcIdle

OAuthFrame ==
  UNCHANGED <<envVars, pgVars, builderVars, validateVars, accessVars, concVars,
              tokens, rq, served, resp, categories>>

\* passport hands the profile of the provider to the callback controller
ReceiveOAuthCallback(r) ==
  /\ jobs[r].pc \in {"idle", "done"}
  /\ admitted < MaxSignIns
  /\ admitted' = admitted + 1
  /\ \E provider \in OAuthProviders, email \in OAuthEmails,
        githubUsername \in GitHubUsernames :
       jobs' = [jobs EXCEPT ![r] =
                  [IdleSignIn EXCEPT !.pc = "oa_findUser",
                                     !.provider = provider,
                                     !.email = email,
                                     !.githubUsername =
                                        IF provider = "github"
                                          THEN githubUsername ELSE <<>>]]
  /\ UNCHANGED users
  /\ OAuthFrame

\* prisma.user.findUnique({where: {email}}); for a new user hashPassword and
\* the base username follow
OAuthFindUser(r) ==
  /\ jobs[r].pc = "oa_findUser"
  /\ IF \E u \in users : u.email = jobs[r].email
       THEN JobGoto(r, "oa_login")
       ELSE LET base == IF jobs[r].provider = "github"
                          THEN BaseUsernameFromGitHub(jobs[r].githubUsername,
                                                      jobs[r].email)
                          ELSE BaseUsernameFromEmail(jobs[r].email)
            IN IF IsDef(base)
                 THEN jobs' = [jobs EXCEPT ![r].pc = "oa_findUsername",
                                           ![r].baseUsername = base[1],
                                           ![r].username = base[1],
                                           ![r].counter = 1]
                 ELSE JobThrow(r, ForeignError("Error", "Invalid email format"))
  /\ UNCHANGED <<users, admitted>>
  /\ OAuthFrame

\* one turn of the loop of generateUsernameFromEmail / FromGitHub:
\* prisma.user.findUnique({where: {username}})
OAuthFindUsername(r) ==
  /\ jobs[r].pc = "oa_findUsername"
  /\ IF \E u \in users : u.username = jobs[r].username
       THEN jobs' = [jobs EXCEPT ![r].username =
                                    jobs[r].baseUsername \o DecimalOf(jobs[r].counter),
                                 ![r].counter = jobs[r].counter + 1]
       ELSE JobGoto(r, "oa_create")
  /\ UNCHANGED <<users, admitted>>
  /\ OAuthFrame

\* prisma.user.create with emailVerifiedAt: new Date()
OAuthCreateUser(r) ==
  /\ jobs[r].pc = "oa_create"
  /\ LET violated == UserUniqueViolations(jobs[r].email, jobs[r].username)
     IN IF violated # {}
          THEN /\ \E field \in violated :
                    JobThrow(r, PrismaKnownRequestError("P2002", Def(<<field>>)))
               /\ UNCHANGED users
          ELSE /\ \E tempPassword \in TempPasswords :
                    users' = users \cup {UserRow(jobs[r].email, jobs[r].username,
                                                 hashPassword(tempPassword),
                                                 Def(clock))}
               /\ JobGoto(r, "oa_return")
  /\ UNCHANGED admitted
  /\ OAuthFrame

\* the user exists: the email is verified where it was not
OAuthLogin(r) ==
  /\ jobs[r].pc = "oa_login"
  /\ users' = {IF u.email = jobs[r].email /\ ~IsDef(u.emailVerifiedAt)
                 THEN [u EXCEPT !.emailVerifiedAt = Def(clock)] ELSE u : u \in users}
  /\ JobGoto(r, "oa_return")
  /\ UNCHANGED admitted
  /\ OAuthFrame

\* the callback controller redirects to the frontend: with the tokens, or
\* with error=authentication_failed from its catch
OAuthRedirect(r) ==
  /\ jobs[r].pc \in {"oa_return", "thrown"}
  /\ jobs' = [jobs EXCEPT ![r].pc = "done",
                          ![r].response =
                             <<IF jobs[r].pc = "thrown"
                                 THEN "/auth/login?error=authentication_failed"
                                 ELSE "/auth/callback">>]
  /\ UNCHANGED <<users, admitted>>
  /\ OAuthFrame

NextOAuth ==
  \E r \in Requests :
    \/ ReceiveOAuthCallback(r)
    \/ OAuthFindUser(r)
    \/ OAuthFindUsername(r)
    \/ OAuthCreateUser(r)
    \/ OAuthLogin(r)
    \/ OAuthRedirect(r)

SpecOAuth == InitOAuth /\ [][NextOAuth]_vars

\* a sign-in whose prisma.user.create was refused by User_username_key while
\* nobody holds its email
UsernameCollision(r) ==
  /\ IsDef(jobs[r].thrown)
  /\ ~\E u \in users : u.email = jobs[r].email
  /\ jobs[r].thrown[1].code = "P2002"
  /\ jobs[r].thrown[1].target = Def(<<"username">>)

\* C25: the username the generators return is held by no user when the account
\* is created, so no OAuth sign-up fails on username uniqueness, two
\* concurrent sign-ups with the same base username included.
C25_NoSignUpFailsOnUsername ==
  \A r \in Requests : ~UsernameCollision(r)

(***************************************************************************)
(* The code routes again, started where a reset code is already pending:   *)
(* forgotPassword has stored a code for the registered user and sent it    *)
(***************************************************************************)
PendingCode ==
  [identifier |-> "ann@x.io", token |-> "0001",
   expires |-> TOKEN_EXPIRATION_MINUTES]

InitPendingCode ==
  /\ nodeEnv = "production"
  /\ clock = 0
  /\ users = {RegisteredUser}
  /\ tokens = {PendingCode}
  /\ rq = [r \in Requests |-> IdleRequest]
  /\ served = 0
  /\ resp = [r \in Requests |-> <<>>]
  /\ PgIdle /\ BuilderIdle /\ ValidateIdle /\ ExtIdle

SpecPendingCode == InitPendingCode /\ [][NextCodes]_vars

\* request r has completed its write and not yet finished
HasWritten(r) ==
  rq[r].pc \in {"rg_deleteToken", "rg_respond", "rp_deleteToken",
                "ve_deleteToken", "ve_respond"}

\* C26: a verification code authorises at most one successful state change:
\* while or after one call of register, resetPassword or verifyEmail has
\* written with an (email, code), no other call presenting the same
\* (email, code) writes, under any interleaving.
C26_CodeAuthorisesAtMostOneWrite ==
  [][\A r \in Requests :
       Accepts(r) =>
         ~\E other \in Requests \ {r} :
            /\ HasWritten(other)
            /\ rq[other].email = rq[r].email
            /\ rq[other].code = rq[r].code]_vars

\* request r is a forgotPassword call that stored the record found under
\* (email, code)
IssuedByForgotPassword(r, email, code) ==
  /\ rq[r].route = "forgotPassword"
  /\ rq[r].email = email
  /\ rq[r].code = code
  /\ \/ rq[r].pc = "fp_send"
     \/ rq[r].pc = "done" /\ resp[r][1].status = 200
  /\ \E t \in FindToken(email, code) : t.expires = rq[r].expires

\* C27: a code is accepted only by the flow that issued it: verifyEmail and
\* register never write on a code that forgotPassword issued.
C27_ResetCodeNotAcceptedByVerifyEmailOrRegister ==
  [][\A r \in Requests :
       (Accepts(r) /\ rq[r].route \in {"verifyEmail", "register"}) =>
         ~\E issuer \in Requests \ {r} :
            IssuedByForgotPassword(issuer, rq[r].email, rq[r].code)]_vars

\* the upsert of an issuing request was refused by VerificationToken_token_key
RefusedForTokenOfAnotherEmail(r) ==
  /\ rq[r].route \in {"checkEmail", "forgotPassword"}
  /\ IsDef(rq[r].thrown)
  /\ rq[r].thrown[1].code = "P2002"
  /\ rq[r].thrown[1].target = Def(<<"token">>)

\* C28: issuing a code for one email succeeds regardless of the pending
\* codes of other emails: no checkEmail or forgotPassword request fails on a
\* code stored for a different email.
C28_IssuanceIndependentOfOtherEmails ==
  \A r \in Requests : ~RefusedForTokenOfAnotherEmail(r)

(***************************************************************************)
(* Specification of the upload routes: the multer middleware of each route *)
(* parses the multipart body and calls the callback the route gives it     *)
(*   POST  /api/users/me/avatar   uploadAvatar, userController.uploadAvatar *)
(*   POST  /api/categories        uploadCategoryIcon, createCategory       *)
(*   PATCH /api/categories/:id    uploadCategoryIcon, updateCategory       *)
(***************************************************************************)
MaxUploads == 3

UploadRoutes ==
  {"POST /api/users/me/avatar", "POST /api/categories", "PATCH /api/categories/:id"}

UploadPath(route) ==
  CASE route = "POST /api/users/me/avatar" ->
         [originalUrl |-> "/api/users/me/avatar", url |-> "/me/avatar"]
    [] route = "POST /api/categories" ->
         [originalUrl |-> "/api/categories", url |-> "/"]
    [] OTHER -> [originalUrl |-> "/api/categories/c1", url |-> "/c1"]

\* what the parsing of the body ends with: a file, no file, or a failure
ParseOutcomes ==
  {"file", "noFile", "LIMIT_FILE_SIZE", "LIMIT_UNEXPECTED_FILE", "fileFilter"}

ParseFailures == {"LIMIT_FILE_SIZE", "LIMIT_UNEXPECTED_FILE", "fileFilter"}

MulterError(code) ==
  [ForeignError("MulterError", code) EXCEPT !.inst = {"Error", "MulterError"},
                                            !.code = code]

\* imageFileFilter: cb(new BadRequestError(...)) for a type not allowed
imageFileFilterError ==
  BadRequestError(Def("Invalid file type. Only JPEG, PNG, WebP, and HEIC are allowed. Received: text/plain"))

\* the err multer passes to the callback
ErrOfParse(outcome) ==
  CASE outcome \in {"file", "noFile"} -> Undefined
    [] outcome = "fileFilter" -> Def(imageFileFilterError)
    [] OTHER -> Def(MulterError(outcome))

\* handleMulterError: returns nothing, the value is the error it throws
handleMulterError(error) ==
  IF "MulterError" \in error.inst
    THEN CASE error.code = "LIMIT_FILE_SIZE" ->
                BadRequestError(Def("File size too large. Maximum size is 5MB"))
           [] error.code = "LIMIT_FILE_COUNT" ->
                BadRequestError(Def("Too many files. Maximum is 10 files"))
           [] error.code = "LIMIT_UNEXPECTED_FILE" ->
                BadRequestError(Def("Unexpected field name"))
           [] OTHER -> BadRequestError(Def("Upload error: " \o error.message))
    ELSE error

IdleUpload == [pc |-> "idle", route |-> "", parsed |-> "", thrown |-> Undefined,
               nextCalls |-> <<>>, response |-> <<>>]

InitUpload ==
  /\ nodeEnv \in NodeEnvs
  /\ clock = 0
  /\ categories = [c \in CategoryIds |-> NoCategory]
  /\ jobs = [r \in Requests |-> IdleUpload]
  /\ admitted = 0
  /\ PgIdle /\ BuilderIdle /\ ValidateIdle /\ AuthIdle /\ AccessIdle /\ ConcIdle

UploadFrame ==
  UNCHANGED <<envVars, pgVars, builderVars, validateVars, authVars, accessVars,
              concVars, categories>>

\* an authenticated client posts a multipart body; multer starts reading it
ReceiveUpload(r) ==
  /\ jobs[r].pc \in {"idle", "done"}
  /\ admitted < MaxUploads
  /\ admitted' = admitted + 1
  /\ \E route \in UploadRoutes, parsed \in ParseOutcomes :
       jobs' = [jobs EXCEPT ![r] = [IdleUpload EXCEPT !.pc = "parsing",
                                                      !.route = route,
                                                      !.parsed = parsed]]
  /\ UploadFrame

\* multer calls (err) => { if (err) { handleMulterError(err, req); } next(err); }
\* without err, next() hands the request to the controller; with err,
\* handleMulterError throws before next(err). The throw leaves a callback
\* that multer runs from the events of the request stream: the exception is
\* uncaught and nothing answers the request. Where the callback runs on the
\* stack of the route middleware, the router catches it and calls next with it.
MulterCallback(r) ==
  /\ jobs[r].pc = "parsing"
  /\ LET err == ErrOfParse(jobs[r].parsed)
     IN IF ~IsDef(err)
          THEN jobs' = [jobs EXCEPT ![r].pc = "controller",
                                    ![r].nextCalls = Append(@, Undefined)]
          ELSE \/ jobs' = [jobs EXCEPT ![r].pc = "uncaught",
                                       ![r].thrown = Def(handleMulterError(err[1]))]
               \/ jobs' = [jobs EXCEPT ![r].pc = "thrown",
                                       ![r].thrown = Def(handleMulterError(err[1]))]
  /\ UNCHANGED admitted
  /\ UploadFrame

\* the controller of the route, inside asyncHandler: it answers, or throws
\* what its service throws
UploadController(r) ==
  /\ jobs[r].pc = "controller"
  /\ LET route == jobs[r].route
         answer(status, message, data) ==
           jobs' = [jobs EXCEPT ![r].pc = "done",
                                ![r].response =
                                   Append(@, sendSuccess(UploadPath(route), clock,
                                                         Def(status), message,
                                                         Def(data), Undefined))]
     IN CASE route = "POST /api/users/me/avatar" ->
               IF jobs[r].parsed = "noFile"
                 THEN JobThrow(r, ForeignError("Error",
                        "No file uploaded. Please provide an avatar image"))
                 ELSE \/ answer(200, "Avatar uploaded successfully", "user")
                      \/ JobThrow(r, NotFoundError(Def("User not found")))
          [] route = "POST /api/categories" ->
               \/ answer(201, "Category created successfully", "category")
               \/ JobThrow(r, ConflictError(Def("Category with this slug already exists")))
          [] OTHER ->
               \/ answer(200, "Category updated successfully", "category")
               \/ JobThrow(r, NotFoundError(Def("Category not found")))
  /\ UNCHANGED admitted
  /\ UploadFrame

\* the global error handler answers what reached next(err)
UploadErrorHandler(r) ==
  /\ jobs[r].pc = "thrown"
  /\ jobs' = [jobs EXCEPT ![r].pc = "done",
                          ![r].response =
                             Append(@, errorHandler(jobs[r].thrown[1], nodeEnv))]
  /\ UNCHANGED admitted
  /\ UploadFrame

NextUpload ==
  \E r \in Requests :
    \/ ReceiveUpload(r)
    \/ MulterCallback(r)
    \/ UploadController(r)
    \/ UploadErrorHandler(r)

SpecUpload == InitUpload /\ [][NextUpload]_vars

\* every step of a request that is under way is eventually taken
SpecUploadFair ==
  /\ SpecUpload
  /\ \A r \in Requests :
       WF_vars(MulterCallback(r) \/ UploadController(r) \/ UploadErrorHandler(r))

\* C29: every upload request whose multipart parsing fails is eventually
\* answered with exactly one error response, produced by the global error
\* handler; none is left without a response.
C29_FailedUploadIsEventuallyAnswered ==
  \A r \in Requests :
    (jobs[r].pc = "parsing" /\ jobs[r].parsed \in ParseFailures)
      ~> (/\ jobs[r].pc = "done"
          /\ Len(jobs[r].response) = 1
          /\ jobs[r].response[1].status >= 400)

====
